---- MODULE Spec2Model ----
(***************************************************************************)
(* A model of the rain-lang pipeline: the module loader                    *)
(* (parser/src/modules/module_loader.rs), the statement/infix parser       *)
(* (parser/src/parser_scope.rs) and the tree-walking evaluator             *)
(* (interpreter/src/evaluate.rs with the scope chain of vm/src/scope.rs).  *)
(* Each subsystem has its own specification over the shared variables.     *)
(***************************************************************************)
EXTENDS Integers, Sequences, FiniteSets, TLC

VARIABLES
    \* ---- module loader ----
    imports,      \* importer world: identifier -> sequence of imported identifiers
    fault,        \* importer world: identifier -> what goes wrong with that module
    modules,      \* ModuleLoader.modules: UID -> Arc<Module> instance (NoModule if absent)
    nextArc,      \* the next fresh Arc<Module> allocation
    calls,        \* number of load_module calls made so far
    lastLoad,     \* outcome of the latest load_module call
    loaded,       \* history: the UIDs for which a load_module call has returned Ok
    alive,        \* FALSE once the process has died of stack exhaustion
    \* ---- evaluator ----
    program,      \* the module under evaluation: its functions' bodies
    run,          \* outcome of calling main(): result, event trace, scopes
    \* ---- parser ----
    tokens,       \* the token stream handed to parse_statement
    parsed,       \* outcome of parse_statement: the AST and the cursor
    \* ---- pre-parser ----
    preparse,     \* a token stream and what each pre-parser entry point made of it
    \* ---- wasm lowering ----
    wasm,         \* the module handed to WasmBuilder and what build made of it
    \* ---- tokenizer ----
    tokenizer,    \* Tokenizer: indentation stack, tokens emitted, error
    \* ---- operator resolver ----
    resolver,     \* OperatorResolver: the characters absorbed, the latest AddResult
    \* ---- type checking ----
    checked       \* a function declaration and what the parser's type checks made of it

loaderVars == <<imports, fault, modules, nextArc, calls, lastLoad, loaded, alive>>
evalVars == <<program, run>>
parserVars == <<tokens, parsed>>
preparserVars == <<preparse>>
wasmVars == <<wasm>>
tokenizerVars == <<tokenizer>>
resolverVars == <<resolver>>

typeVars == <<checked>>

vars ==
    <<loaderVars, evalVars, parserVars, preparserVars, wasmVars, tokenizerVars, resolverVars,
      typeVars>>

(***************************************************************************)
(*                              MODULE LOADER                              *)
(***************************************************************************)

\* The identifiers the host's importer knows about.
Ids == {"a", "b", "c", "d"}

\* Bounds of the loader model.
MaxEdges == 3      \* import statements in the whole importer world
MaxCalls == 2      \* load_module calls in one behaviour
MaxStack == 6      \* nested load_imports frames the native stack can hold

NoUid == 0
NoModule == 0

\* What can be wrong with one module of the importer world.
Faults == {"ok", "nouid", "nosource", "badsyntax", "badbody"}

\* ModuleImporter::get_unique_identifier: an injective map from identifier
\* text to a UID, or None (NoUid) when the importer does not know the module.
UidTable == [a |-> 11, b |-> 12, c |-> 13, d |-> 14]

GetUniqueIdentifier(id) == IF fault[id] = "nouid" THEN NoUid ELSE UidTable[id]

Uids == {UidTable[i] : i \in Ids}

IdOfUid(uid) == CHOOSE i \in Ids : UidTable[i] = uid

\* ModuleImporter::load_module: the source text, or None.
ImporterHasSource(id) == fault[id] # "nosource"

\* Tokenizer::tokenize followed by ModulePreParser::prepare_module.
PrepareOk(id) == fault[id] # "badsyntax"

\* ModuleParser::parse_module(uid): a Module {uid, imports} or a parse error.
\* The Module's imports are the UIDs of the module's own import declarations.
ParseModuleOk(uid) == fault[IdOfUid(uid)] # "badbody"

ModuleImports(uid) == [k \in 1..Len(imports[IdOfUid(uid)]) |->
                           UidTable[imports[IdOfUid(uid)][k]]]

\* The accumulator threaded through load_imports:
\*   vec     - the Vec<Arc<ParsableModule>> handed to the parser (as UIDs)
\*   fetched - the identifiers passed to importer.load_module, in order
\*   err     - "ok", or the error that aborted the walk
\*   errId   - the identifier the error names
NewAcc(uid) == [vec |-> <<uid>>, fetched |-> <<>>, err |-> "ok", errId |-> ""]

\* ModuleLoader::load_imports(vec, module, importer), walking the import
\* list `imps` of one parsable module at nesting depth `depth`.
RECURSIVE LoadImports(_, _, _)
LoadImports(acc, imps, depth) ==
    IF imps = <<>> THEN acc
    ELSE
      LET import == Head(imps)
          uid == GetUniqueIdentifier(import)
      IN
      IF uid = NoUid
        THEN [acc EXCEPT !.err = "ModuleNotFound", !.errId = import]
      ELSE IF modules[uid] # NoModule
        THEN LoadImports([acc EXCEPT !.vec = Append(@, uid)], Tail(imps), depth)
      ELSE
        LET fetchedAcc == [acc EXCEPT !.fetched = Append(@, import)] IN
        IF ~ImporterHasSource(import)
          THEN [fetchedAcc EXCEPT !.err = "LoadModuleError", !.errId = import]
        ELSE IF ~PrepareOk(import)
          THEN [fetchedAcc EXCEPT !.err = "ParseError", !.errId = import]
        ELSE IF depth >= MaxStack
          THEN [fetchedAcc EXCEPT !.err = "StackOverflow", !.errId = import]
        ELSE
          LET inner == LoadImports(fetchedAcc, imports[import], depth + 1) IN
          IF inner.err # "ok" THEN inner
          ELSE LoadImports([inner EXCEPT !.vec = Append(@, uid)], Tail(imps), depth)

\* ModuleLoader::create_parser: the main module first, then its imports.
CreateParser(id, uid) == LoadImports(NewAcc(uid), imports[id], 1)

\* The dependency loop of load_module_with_source: parse every UID of
\* module.imports, give it a fresh Arc and insert it into the cache.
\* st = [cache, arc, deps, err]
RECURSIVE ParseDependencies(_, _)
ParseDependencies(st, uids) ==
    IF uids = <<>> THEN st
    ELSE
      LET import_uid == Head(uids) IN
      IF ~ParseModuleOk(import_uid)
        THEN [st EXCEPT !.err = "ParseError", !.errId = IdOfUid(import_uid)]
        ELSE ParseDependencies(
               [st EXCEPT !.cache[import_uid] = st.arc,
                          !.deps = Append(@, st.arc),
                          !.arc = @ + 1],
               Tail(uids))

\* ModuleLoader::load_module_with_source. The result is a record
\*   [cache, arc, status, err, errId, module, deps, fetched, vec]
LoadFailure(cache, arc, err, errId, fetched) ==
    [cache |-> cache, arc |-> arc, status |-> "Err", err |-> err, errId |-> errId,
     module |-> NoModule, deps |-> <<>>, fetched |-> fetched, vec |-> <<>>]

LoadModuleWithSource(id, uid) ==
    IF ~PrepareOk(id) THEN LoadFailure(modules, nextArc, "ParseError", id, <<id>>)
    ELSE
      LET parser == CreateParser(id, uid)
          fetched == <<id>> \o parser.fetched
      IN
      IF parser.err # "ok"
        THEN LoadFailure(modules, nextArc, parser.err, parser.errId, fetched)
      ELSE IF ~ParseModuleOk(uid)
        THEN LoadFailure(modules, nextArc, "ParseError", id, fetched)
      ELSE
        LET main == nextArc
            st0 == [cache |-> [modules EXCEPT ![uid] = main], arc |-> main + 1,
                    deps |-> <<>>, err |-> "ok", errId |-> ""]
            st == ParseDependencies(st0, ModuleImports(uid))
        IN
        IF st.err # "ok"
          THEN LoadFailure(st.cache, st.arc, st.err, st.errId, fetched)
          ELSE [cache |-> st.cache, arc |-> st.arc, status |-> "Ok", err |-> "ok",
                errId |-> "", module |-> main, deps |-> st.deps,
                fetched |-> fetched, vec |-> parser.vec]

\* ModuleLoader::load_module.
\* A load_module that never looks into the cache.
LoadModuleUncached(id) ==
    LET uid == GetUniqueIdentifier(id) IN
    IF uid = NoUid
      THEN LoadFailure(modules, nextArc, "ModuleNotFound", id, <<>>)
    ELSE IF ~ImporterHasSource(id)
      THEN LoadFailure(modules, nextArc, "LoadModuleError", id, <<id>>)
    ELSE LoadModuleWithSource(id, uid)

LoadModuleResult(id) ==
    LET uid == GetUniqueIdentifier(id) IN
    IF uid = NoUid
      THEN LoadFailure(modules, nextArc, "ModuleNotFound", id, <<>>)
    ELSE IF modules[uid] # NoModule
      THEN [cache |-> modules, arc |-> nextArc, status |-> "Ok", err |-> "ok",
            errId |-> "", module |-> modules[uid], deps |-> <<>>,
            fetched |-> <<>>, vec |-> <<>>]
    ELSE IF ~ImporterHasSource(id)
      THEN LoadFailure(modules, nextArc, "LoadModuleError", id, <<id>>)
    ELSE LoadModuleWithSource(id, uid)

NoLoad == [id |-> "", uid |-> NoUid, again |-> FALSE, status |-> "None", err |-> "ok",
           errId |-> "", module |-> NoModule, deps |-> <<>>, fetched |-> <<>>,
           vec |-> <<>>, before |-> [u \in Uids |-> NoModule]]

\* One load_module(id, importer) call by the host.
LoadModule(id) ==
    /\ alive
    /\ calls < MaxCalls
    /\ LET r == LoadModuleResult(id)
           uid == GetUniqueIdentifier(id)
       IN
       /\ modules' = r.cache
       /\ nextArc' = r.arc
       /\ calls' = calls + 1
       /\ alive' = (r.err # "StackOverflow")
       /\ lastLoad' = [id |-> id, uid |-> uid,
                       again |-> (uid \in loaded),
                       status |-> r.status, err |-> r.err, errId |-> r.errId,
                       module |-> r.module, deps |-> r.deps, fetched |-> r.fetched,
                       vec |-> r.vec, before |-> modules]
       /\ loaded' = IF r.status = "Ok" THEN loaded \cup {uid} ELSE loaded
    /\ UNCHANGED <<imports, fault>>


(***************************************************************************)
(*                                EVALUATOR                                *)
(***************************************************************************)

\* Bounds of the evaluator model.
MaxInt == 2        \* largest integer literal of the generated programs
MaxNest == 2       \* nesting depth of if/for/while in the generated bodies
MaxWhile == 3      \* iterations after which a while loop is cut off

\* ---- LangValue ----
\* t is the variant, v its scalar payload, e the elements of a vector.
Nothing == [t |-> "Nothing", v |-> 0, e |-> <<>>]
IntV(n) == [t |-> "Int", v |-> n, e |-> <<>>]
BoolV(b) == [t |-> "Bool", v |-> IF b THEN 1 ELSE 0, e |-> <<>>]
FuncV(i) == [t |-> "Function", v |-> i, e |-> <<>>]
Undef == [t |-> "Undef", v |-> 0, e |-> <<>>]
VectorV(elems) == [t |-> "Vector", v |-> 0, e |-> elems]

\* LangValue::truthy
Truthy(val) ==
    CASE val.t = "Bool" -> val.v = 1
      [] val.t = "Int" -> val.v # 0
      [] val.t = "Nothing" -> FALSE
      [] OTHER -> TRUE

\* LangValue::sum / minus / multiply / divide on Int operands; Nothing
\* otherwise. (The operands of the programs below stay far inside the i32
\* range and are never negative where they are divided.)
MathApply(op, l, r) ==
    IF l.t = "Int" /\ r.t = "Int"
      THEN CASE op = "Plus" -> IntV(l.v + r.v)
             [] op = "Minus" -> IntV(l.v - r.v)
             [] op = "Multiply" -> IntV(l.v * r.v)
             [] op = "Divide" /\ r.v # 0 -> IntV(l.v \div r.v)
             [] OTHER -> Nothing
      ELSE Nothing

\* What LangValue::divide does with an Int divisor of 0. Its signature
\* returns a LangValue, so it either hands some value back or panics.
DivideByZeroOutcomes == {"panic", "nothing"}

\* What LangValue::get_value_field does with an index outside the vector.
\* Its signature returns a LangValue, so it either hands some value back
\* or panics.
OutOfBoundsOutcomes == {"panic", "nothing"}

\* The index is inside the vector (positions count from 0).
InBounds(variable, value) ==
    /\ variable.t = "Vector" /\ value.t = "Int"
    /\ 0 <= value.v /\ value.v < Len(variable.e)

\* LangValue::equals / smaller ... : the order on numerics.
BoolApply(op, l, r) ==
    CASE op = "Equal" -> l = r
      [] op = "Different" -> l # r
      [] op = "Smaller" -> l.t = "Int" /\ r.t = "Int" /\ l.v < r.v
      [] op = "Bigger" -> l.t = "Int" /\ r.t = "Int" /\ l.v > r.v
      [] op = "SmallerEq" -> l.t = "Int" /\ r.t = "Int" /\ l.v <= r.v
      [] op = "BiggerEq" -> l.t = "Int" /\ r.t = "Int" /\ l.v >= r.v
      [] OTHER -> FALSE

\* ---- EvalResult ----
EvOk(val) == [k |-> "Ok", val |-> val, rk |-> "", err |-> ""]
EvRet(val, kind) == [k |-> "Ret", val |-> val, rk |-> kind, err |-> ""]
EvErr(e) == [k |-> "Err", val |-> Nothing, rk |-> "", err |-> e]
\* not an EvalResult: the thread panics and evaluate_ast never returns
EvPanic(e) == [k |-> "Panic", val |-> Nothing, rk |-> "", err |-> e]

\* ---- AST nodes ----
NoNode == [kind |-> "None"]
Literal(val) == [kind |-> "Literal", value |-> val]
VariableDecl(name, value) == [kind |-> "VariableDecl", name |-> name, value |-> value]
VariableRef(name) == [kind |-> "VariableRef", name |-> name]
VariableAsgn(name, value) == [kind |-> "VariableAsgn", name |-> name, value |-> value]
FunctionInvok(variable, parameters) ==
    [kind |-> "FunctionInvok", variable |-> variable, parameters |-> parameters]
MathOperation(op, left, right) ==
    [kind |-> "MathOperation", operation |-> op, left |-> left, right |-> right]
BoolOperation(op, left, right) ==
    [kind |-> "BoolOperation", operation |-> op, left |-> left, right |-> right]
ReturnStatement(value, rk) == [kind |-> "ReturnStatement", value |-> value, rk |-> rk]
IfStatement(condition, body) ==
    [kind |-> "IfStatement", condition |-> condition, body |-> body]
ForStatement(iter_name, left, right, body) ==
    [kind |-> "ForStatement", iter_name |-> iter_name, left |-> left,
     right |-> right, body |-> body]
WhileStatement(condition, body) ==
    [kind |-> "WhileStatement", condition |-> condition, body |-> body]
VectorLiteral(values) == [kind |-> "VectorLiteral", values |-> values]
ValueFieldAccess(variable, value) ==
    [kind |-> "ValueFieldAccess", variable |-> variable, value |-> value]

\* ---- Scope: a variable map and a parent link ----
Names == {"main", "g", "x", "y", "i", "p", "u", "v", "a", "b"}
ModuleScope == 1      \* index of the module scope, the root of every chain
NoScope == 0

\* Scope::new / new_child: a fresh scope under `parent`, owned by the
\* function invocation `frame` (0 outside any invocation).
NewChild(st, parent, frame) ==
    [st EXCEPT !.scopes = Append(@, [parent |-> parent, frame |-> frame,
                                     vars |-> [n \in Names |-> Undef]])]

NewestScope(st) == Len(st.scopes)

\* Scope::declare_var
DeclareVar(st, s, name, val) == [st EXCEPT !.scopes[s].vars[name] = val]

\* The scope of the chain starting at s that binds name (NoScope if none).
RECURSIVE FindScope(_, _, _)
FindScope(st, s, name) ==
    IF s = NoScope THEN NoScope
    ELSE IF st.scopes[s].vars[name] # Undef THEN s
    ELSE FindScope(st, st.scopes[s].parent, name)

\* Scope::get_var: the nearest binding along the parent chain, or None.
GetVar(st, s, name) ==
    LET found == FindScope(st, s, name) IN
    IF found = NoScope THEN Undef ELSE st.scopes[found].vars[name]

\* Scope::set_var: rebind the nearest binding along the parent chain;
\* nothing is bound when no scope of the chain binds the name.
SetVar(st, s, name, val) ==
    LET found == FindScope(st, s, name) IN
    IF found = NoScope THEN st ELSE [st EXCEPT !.scopes[found].vars[name] = val]

\* ---- the event trace (history of what the evaluator did) ----
Event(ev, frame, scope, loop, n, m, val, res, rk) ==
    [ev |-> ev, frame |-> frame, scope |-> scope, loop |-> loop, n |-> n, m |-> m,
     val |-> val, res |-> res, rk |-> rk]

Log(st, e) == [st EXCEPT !.trace = Append(@, e)]

ResultEvent(ev, frame, scope, loop, r) ==
    Event(ev, frame, scope, loop, 0, 0, r.val, r.k, r.rk)

\* ---- Scope::evaluate_ast and Scope::invoke_function ----
\* Every operator takes the scope s the node is evaluated in, the function
\* invocation f that scope belongs to and the evaluator state st, and yields
\* [r |-> EvalResult, st |-> state afterwards]. An operator named ...Next,
\* ...Left, ...Right or ...Result is the part of a match arm that runs once
\* a sub-evaluation has yielded the result passed as its last argument.
RECURSIVE Eval(_, _, _, _)
RECURSIVE EvalBody(_, _, _, _)
RECURSIVE EvalParameters(_, _, _, _, _)
RECURSIVE EvalFor(_, _, _, _, _, _, _)
RECURSIVE EvalWhile(_, _, _, _, _, _)
RECURSIVE InvokeFunction(_, _, _, _, _)

\* `for child in body`: the children in order, up to the first that does
\* not yield Ok; that result, or Ok(Nothing) when all yield Ok.
BodyNext(rest, s, f, c) ==
    IF c.r.k # "Ok" THEN c ELSE EvalBody(rest, s, f, c.st)

EvalBody(body, s, f, st) ==
    IF body = <<>> THEN [r |-> EvOk(Nothing), st |-> st]
    ELSE BodyNext(Tail(body), s, f,
                  Eval(Head(body), s, f,
                       Log(st, Event("stmt", f, s, 0, 0, 0, Nothing, "", Head(body).kind))))

\* The parameters of a FunctionInvok, left to right, each with `?`.
ParametersNext(rest, s, f, acc, c) ==
    IF c.r.k # "Ok" THEN [r |-> c.r, st |-> c.st, values |-> acc]
    ELSE EvalParameters(rest, s, f, c.st, Append(acc, c.r.val))

EvalParameters(params, s, f, st, acc) ==
    IF params = <<>> THEN [r |-> EvOk(Nothing), st |-> st, values |-> acc]
    ELSE ParametersNext(Tail(params), s, f, acc, Eval(Head(params), s, f, st))

\* The loop `for i in min..max` of a ForStatement, from iteration i on;
\* b is what the body of iteration i has yielded.
ForNext(node, s, f, i, max, loop, b) ==
    IF b.r.k = "Ok" THEN EvalFor(node, s, f, b.st, i + 1, max, loop)
    ELSE IF b.r.k = "Ret" /\ b.r.rk = "Break"
      THEN [r |-> EvOk(b.r.val),
            st |-> Log(b.st, Event("for_end", f, s, loop, 0, 0, b.r.val, "Ok", "Break"))]
    ELSE [r |-> b.r, st |-> Log(b.st, ResultEvent("for_end", f, s, loop, b.r))]

\* A for loop that also runs its body for i = max.
EvalForInclusive(node, s, f, st, i, max, loop) ==
    IF i > max
      THEN [r |-> EvOk(Nothing),
            st |-> Log(st, Event("for_end", f, s, loop, 0, 0, Nothing, "Ok", "Done"))]
    ELSE
      LET st1 == NewChild(st, s, f)
          for_scope == NewestScope(st1)
          st2 == DeclareVar(st1, for_scope, node.iter_name, IntV(i))
          st3 == Log(st2, Event("iter", f, for_scope, loop, i, 0, Nothing, "", ""))
      IN ForNext(node, s, f, i, max, loop, EvalBody(node.body, for_scope, f, st3))

EvalFor(node, s, f, st, i, max, loop) ==
    IF i >= max
      THEN [r |-> EvOk(Nothing),
            st |-> Log(st, Event("for_end", f, s, loop, 0, 0, Nothing, "Ok", "Done"))]
    ELSE
      LET st1 == NewChild(st, s, f)
          for_scope == NewestScope(st1)
          st2 == DeclareVar(st1, for_scope, node.iter_name, IntV(i))
          st3 == Log(st2, Event("iter", f, for_scope, loop, i, 0, Nothing, "", ""))
      IN ForNext(node, s, f, i, max, loop, EvalBody(node.body, for_scope, f, st3))

\* The loop of a WhileStatement; n counts the iterations already made,
\* c is what the condition has yielded, b what the body has yielded.
WhileNext(node, s, f, n, loop, b) ==
    IF b.r.k = "Ok" THEN EvalWhile(node, s, f, b.st, n + 1, loop)
    ELSE IF b.r.k = "Ret" /\ b.r.rk = "Break"
      THEN [r |-> EvOk(b.r.val),
            st |-> Log(b.st, Event("while_end", f, s, loop, 0, 0, b.r.val, "Ok", "Break"))]
    ELSE [r |-> b.r, st |-> Log(b.st, ResultEvent("while_end", f, s, loop, b.r))]

WhileCondition(node, s, f, n, loop, c) ==
    IF c.r.k # "Ok"
      THEN [r |-> c.r, st |-> Log(c.st, ResultEvent("while_end", f, s, loop, c.r))]
    ELSE IF ~Truthy(c.r.val)
      THEN [r |-> EvOk(Nothing),
            st |-> Log(c.st, Event("while_end", f, s, loop, 0, 0, Nothing, "Ok", "Done"))]
    ELSE
      LET st1 == NewChild(c.st, s, f)
          while_scope == NewestScope(st1)
          st2 == Log(st1, Event("iter", f, while_scope, loop, n, 0, Nothing, "", ""))
      IN WhileNext(node, s, f, n, loop, EvalBody(node.body, while_scope, f, st2))

EvalWhile(node, s, f, st, n, loop) ==
    IF n >= MaxWhile
      THEN [r |-> EvErr("Cut"), st |-> [st EXCEPT !.cut = TRUE]]
    ELSE WhileCondition(node, s, f, n, loop, Eval(node.condition, s, f, st))

\* Scope::invoke_function, called on the scope s of the caller.
RECURSIVE BindParameters(_, _, _, _)
BindParameters(st, scope, names, values) ==
    IF names = <<>> THEN st
    ELSE BindParameters(DeclareVar(st, scope, Head(names), Head(values)),
                        scope, Tail(names), Tail(values))

\* An invocation that hands a Ret of kind Return on to its caller.
InvokeResultKeepsRet(callee, func_scope, b) ==
    [r |-> b.r, st |-> Log(b.st, ResultEvent("exit", callee, func_scope, 0, b.r))]

\* What the invocation yields once its body has yielded b.
InvokeResult(callee, func_scope, b) ==
    IF b.r.k = "Ret" /\ b.r.rk = "Return"
      THEN [r |-> EvOk(b.r.val),
            st |-> Log(b.st, ResultEvent("exit", callee, func_scope, 0, EvOk(b.r.val)))]
    ELSE [r |-> b.r, st |-> Log(b.st, ResultEvent("exit", callee, func_scope, 0, b.r))]

InvokeFunction(func, param_values, s, f, st) ==
    IF func.t # "Function" THEN [r |-> EvErr("ValueNotFunc"), st |-> st]
    ELSE
      LET def == program.funcs[func.v] IN
      IF Len(def.parameters) # Len(param_values)
        THEN [r |-> EvErr("FuncInvalidParamCount"), st |-> st]
      ELSE
        LET callee == st.frames + 1
            st1 == NewChild([st EXCEPT !.frames = callee], s, callee)
            func_scope == NewestScope(st1)
            st2 == BindParameters(st1, func_scope, def.parameters, param_values)
            st3 == Log(st2, Event("call", callee, func_scope, 0, s, f, func, "", ""))
        IN InvokeResult(callee, func_scope, EvalBody(def.body, func_scope, callee, st3))

\* The two operands of a MathOperation or BoolOperation: l is what the left
\* operand has yielded, r what the right operand has yielded.
OperandsRight(s, f, l, r) ==
    [r |-> r.r, st |-> Log(r.st, ResultEvent("right_end", f, s, 0, r.r)),
     left |-> l.r.val, right |-> r.r.val]

\* Operands with a short circuit: the right one is skipped after a falsy left.
OperandsLeftShortCircuit(node, s, f, l) ==
    IF l.r.k # "Ok" \/ ~Truthy(l.r.val)
      THEN [r |-> l.r, st |-> Log(l.st, ResultEvent("left_end", f, s, 0, l.r)),
            left |-> l.r.val, right |-> l.r.val]
    ELSE OperandsRight(s, f, l,
           Eval(node.right, s, f,
                Log(Log(l.st, ResultEvent("left_end", f, s, 0, l.r)),
                    Event("right_begin", f, s, 0, 0, 0, Nothing, "", ""))))

OperandsLeft(node, s, f, l) ==
    IF l.r.k # "Ok"
      THEN [r |-> l.r, st |-> Log(l.st, ResultEvent("left_end", f, s, 0, l.r)),
            left |-> Nothing, right |-> Nothing]
    ELSE OperandsRight(s, f, l,
           Eval(node.right, s, f,
                Log(Log(l.st, ResultEvent("left_end", f, s, 0, l.r)),
                    Event("right_begin", f, s, 0, 0, 0, Nothing, "", ""))))

EvalOperands(node, s, f, st) ==
    OperandsLeft(node, s, f,
        Eval(node.left, s, f, Log(st, Event("left_begin", f, s, 0, 0, 0, Nothing, "", ""))))

\* ---- the arms of evaluate_ast, each once its sub-evaluation has yielded ----
DeclResult(node, s, v) ==
    IF v.r.k # "Ok" THEN v
    ELSE [r |-> EvOk(Nothing), st |-> DeclareVar(v.st, s, node.name, v.r.val)]

AsgnResult(node, s, f, v) ==
    IF v.r.k # "Ok" THEN v
    ELSE [r |-> EvOk(Nothing),
          st |-> Log(SetVar(v.st, s, node.name, v.r.val),
                     Event("asgn", f, FindScope(v.st, s, node.name), 0, s, 0,
                           v.r.val, "", node.name))]

InvokNext(func, s, f, ps) ==
    IF ps.r.k # "Ok" THEN [r |-> ps.r, st |-> ps.st]
    ELSE InvokeFunction(func, ps.values, s, f, ps.st)

InvokLeft(node, s, f, func) ==
    IF func.r.k # "Ok" THEN func
    ELSE InvokNext(func.r.val, s, f, EvalParameters(node.parameters, s, f, func.st, <<>>))

MathValue(node, o) ==
    IF /\ node.operation = "Divide" /\ o.left.t = "Int" /\ o.right = IntV(0)
       /\ program.div0 = "panic"
      THEN EvPanic("attempt to divide by zero")
    ELSE EvOk(MathApply(node.operation, o.left, o.right))

MathResult(node, o) ==
    IF o.r.k # "Ok" THEN [r |-> o.r, st |-> o.st]
    ELSE [r |-> MathValue(node, o),
          st |-> Log(Log(o.st, Event("math", 0, 0, 0, 0, 0, o.right, "", node.operation)),
                     Event("math_end", 0, 0, 0, 0, 0, MathValue(node, o).val,
                           MathValue(node, o).k, MathValue(node, o).err))]

BoolResult(node, o) ==
    IF o.r.k # "Ok" THEN [r |-> o.r, st |-> o.st]
    ELSE [r |-> EvOk(BoolV(BoolApply(node.operation, o.left, o.right))), st |-> o.st]

ReturnResult(node, s, f, v) ==
    IF v.r.k # "Ok" THEN v
    ELSE [r |-> EvRet(v.r.val, node.rk),
          st |-> Log(v.st, ResultEvent("ret", f, s, 0, EvRet(v.r.val, node.rk)))]

IfResult(b) ==
    IF b.r.k # "Ok" THEN b ELSE [r |-> EvOk(Nothing), st |-> b.st]

IfNext(node, s, f, c) ==
    IF c.r.k # "Ok" THEN c
    ELSE IF ~Truthy(c.r.val) THEN [r |-> EvOk(Nothing), st |-> c.st]
    ELSE IfResult(EvalBody(node.body, NewestScope(NewChild(c.st, s, f)), f,
                           NewChild(c.st, s, f)))

ForRight(node, s, f, l, r) ==
    IF r.r.k # "Ok" THEN r
    ELSE IF l.r.val.t # "Int" \/ r.r.val.t # "Int"
      THEN [r |-> EvErr("ValueNotNumber"), st |-> r.st]
    ELSE EvalFor(node, s, f,
                 Log([r.st EXCEPT !.loops = r.st.loops + 1],
                     Event("for_begin", f, s, r.st.loops + 1, l.r.val.v, r.r.val.v,
                           Nothing, "", "")),
                 l.r.val.v, r.r.val.v, r.st.loops + 1)

VectorResult(ps) ==
    IF ps.r.k # "Ok" THEN [r |-> ps.r, st |-> ps.st]
    ELSE [r |-> EvOk(VectorV(ps.values)), st |-> ps.st]

\* variable.get_value_field(value), wrapped in EvalResult::Ok
FieldValue(variable, value) ==
    IF InBounds(variable, value) THEN EvOk(variable.e[value.v + 1])
    ELSE IF variable.t = "Vector" /\ value.t = "Int" /\ program.oob = "panic"
      THEN EvPanic("index out of bounds")
    ELSE EvOk(Nothing)

FieldRight(variable, value) ==
    IF value.r.k # "Ok" THEN value
    ELSE [r |-> FieldValue(variable, value.r.val),
          st |-> Log(Log(value.st,
                         Event("index", 0, 0, 0, value.r.val.v, 0, variable, "", "")),
                     Event("index_end", 0, 0, 0, 0, 0,
                           FieldValue(variable, value.r.val).val,
                           FieldValue(variable, value.r.val).k,
                           FieldValue(variable, value.r.val).err))]

FieldLeft(node, s, f, variable) ==
    IF variable.r.k # "Ok" THEN variable
    ELSE FieldRight(variable.r.val, Eval(node.value, s, f, variable.st))

ForLeft(node, s, f, l) ==
    IF l.r.k # "Ok" THEN l
    ELSE ForRight(node, s, f, l, Eval(node.right, s, f, l.st))

Eval(node, s, f, st) ==
    CASE node.kind = "VariableDecl" -> DeclResult(node, s, Eval(node.value, s, f, st))
      [] node.kind = "VariableRef" ->
           LET found == FindScope(st, s, node.name)
               value == GetVar(st, s, node.name)
               st1 == Log(st, Event("ref", f, found, 0, s, 0, value, "", node.name))
           IN IF value # Undef THEN [r |-> EvOk(value), st |-> st1]
              ELSE [r |-> EvErr("VarNotFound"), st |-> st1]
      [] node.kind = "VariableAsgn" -> AsgnResult(node, s, f, Eval(node.value, s, f, st))
      [] node.kind = "FunctionInvok" -> InvokLeft(node, s, f, Eval(node.variable, s, f, st))
      [] node.kind = "Literal" -> [r |-> EvOk(node.value), st |-> st]
      [] node.kind = "MathOperation" -> MathResult(node, EvalOperands(node, s, f, st))
      [] node.kind = "BoolOperation" -> BoolResult(node, EvalOperands(node, s, f, st))
      [] node.kind = "ReturnStatement" ->
           IF node.value = NoNode
             THEN [r |-> EvRet(Nothing, node.rk),
                   st |-> Log(st, ResultEvent("ret", f, s, 0, EvRet(Nothing, node.rk)))]
           ELSE ReturnResult(node, s, f, Eval(node.value, s, f, st))
      [] node.kind = "IfStatement" -> IfNext(node, s, f, Eval(node.condition, s, f, st))
      [] node.kind = "ForStatement" -> ForLeft(node, s, f, Eval(node.left, s, f, st))
      [] node.kind = "VectorLiteral" ->
           VectorResult(EvalParameters(node.values, s, f, st, <<>>))
      [] node.kind = "ValueFieldAccess" ->
           FieldLeft(node, s, f, Eval(node.variable, s, f, st))
      [] node.kind = "WhileStatement" ->
           EvalWhile(node, s, f,
                     Log([st EXCEPT !.loops = st.loops + 1],
                         Event("while_begin", f, s, st.loops + 1, 0, 0, Nothing, "", "")),
                     0, st.loops + 1)

\* ---- the programs evaluated ----
IntLit(n) == Literal(IntV(n))

\* x = x + 1
Inc == VariableAsgn("x", MathOperation("Plus", VariableRef("x"), IntLit(1)))

\* g(1)
CallG == FunctionInvok(VariableRef("g"), <<IntLit(1)>>)

Simple == {ReturnStatement(IntLit(1), "Return"), ReturnStatement(IntLit(MaxInt), "Break"),
           Inc, CallG}

Bodies(S) == {<<t>> : t \in S} \cup {<<t, Inc>> : t \in S}

\* for-loop bounds: a non-empty range, an empty one and an inverted one
ForBounds == {<<0, MaxInt>>, <<1, 1>>, <<MaxInt, 0>>}

Wrap(S) ==
    {IfStatement(c, b) : c \in {IntLit(0), IntLit(1)}, b \in Bodies(S)}
    \cup {ForStatement("i", IntLit(lh[1]), IntLit(lh[2]), b) : lh \in ForBounds, b \in Bodies(S)}
    \cup {WhileStatement(BoolOperation("Smaller", VariableRef("x"), IntLit(MaxInt)), b) :
             b \in Bodies(S)}

\* statements nested at most n deep
RECURSIVE Stmts(_)
Stmts(n) == IF n = 0 THEN Simple ELSE Stmts(n - 1) \cup Wrap(Stmts(n - 1))

\* operands that yield a truthy value, a falsy value, an Err and a Ret
Operands == {IntLit(0), IntLit(1), Literal(BoolV(FALSE)), Literal(BoolV(TRUE)),
             VariableRef("u"), ReturnStatement(IntLit(1), "Return"), CallG}

Operations ==
    {MathOperation(op, a, b) : op \in {"Plus", "Multiply"}, a \in Operands, b \in Operands}
    \cup {BoolOperation(op, a, b) : op \in {"Equal", "Smaller"}, a \in Operands, b \in Operands}

NestedOperations ==
    Operations \cup {MathOperation("Plus", e, IntLit(1)) : e \in Operations}
               \cup {BoolOperation("Equal", IntLit(1), e) : e \in Operations}

\* for statements over every pair of bounds, with a non-Int bound too
BoundExprs == {IntLit(n) : n \in (0 - 1)..MaxInt} \cup {Literal(Nothing)}

RangeLoops ==
    {ForStatement("i", lo, hi, b) :
        lo \in BoundExprs, hi \in BoundExprs,
        b \in {<<Inc>>, <<VariableDecl("y", VariableRef("i")), Inc>>,
               <<VariableAsgn("x", VariableRef("y")), VariableDecl("y", IntLit(1))>>}}

XDecl == VariableDecl("x", IntLit(0))
ReturnX == ReturnStatement(VariableRef("x"), "Return")

\* y = a / b with a divisor that is, or evaluates to, 0 and one that is not
Divisions ==
    {MathOperation("Divide", IntLit(a), b) :
        a \in 0..MaxInt,
        b \in {IntLit(0), IntLit(1), IntLit(MaxInt),
               MathOperation("Minus", IntLit(1), IntLit(1))}}

\* var v = [..]; return v[i], for indices inside and outside the vector
VectorLiterals == {VectorLiteral(<<>>), VectorLiteral(<<IntLit(1), IntLit(2), IntLit(3)>>)}

Indices == {IntLit(n) : n \in {0 - 1, 0, 1, 2, 3, 5}}

IndexBodies ==
    {<<VariableDecl("v", vec),
       ReturnStatement(ValueFieldAccess(VariableRef("v"), idx), "Return")>> :
        vec \in VectorLiterals, idx \in Indices}

DivisionBodies == {<<XDecl, VariableDecl("y", e), ReturnX>> : e \in Divisions}

MainBodies ==
    {<<XDecl, t, ReturnX>> : t \in Stmts(MaxNest)}
    \cup {<<XDecl, VariableDecl("y", e), ReturnX>> : e \in NestedOperations}
    \cup {<<XDecl, t, ReturnX>> : t \in RangeLoops}

\* bodies of g(p): a plain return, a break outside any loop, an assignment
\* to and a read of a name the caller binds, and a return inside a loop
GBodies ==
    {<<ReturnStatement(VariableRef("p"), "Return")>>,
     <<ReturnStatement(IntLit(MaxInt), "Break")>>,
     <<VariableAsgn("x", IntLit(5)), ReturnStatement(VariableRef("x"), "Return")>>,
     <<ForStatement("i", IntLit(0), IntLit(MaxInt),
          <<IfStatement(VariableRef("i"),
               <<ReturnStatement(VariableRef("i"), "Return")>>)>>),
       ReturnStatement(IntLit(9), "Return")>>}

\* assignments to a name no scope binds, at the top of main and inside an if
\* body, each followed by a read of the name; and an assignment to a name
\* that the if body declares again
AssignBodies ==
    {<<VariableAsgn("u", IntLit(1)), ReturnStatement(VariableRef("u"), "Return")>>,
     <<IfStatement(IntLit(1), <<VariableAsgn("u", IntLit(1))>>),
       ReturnStatement(VariableRef("u"), "Return")>>,
     <<XDecl,
       IfStatement(IntLit(1), <<VariableDecl("x", IntLit(1)), VariableAsgn("x", IntLit(2))>>),
       ReturnX>>}

MainIndex == 1
GIndex == 2

\* module.variables: the global variables a and b in declaration order,
\* where an initializer reads the other variable, calls g, or is a literal
GlobalDecl(name, data) == [name |-> name, data |-> data]

Initializers == {IntLit(1), VariableRef("a"), VariableRef("b"), CallG}

Variables ==
    {<<>>}
    \cup {<<GlobalDecl("a", e)>> : e \in Initializers \ {VariableRef("a")}}
    \cup {<<GlobalDecl("a", e1), GlobalDecl("b", e2)>> :
            e1 \in Initializers \ {VariableRef("a")},
            e2 \in Initializers \ {VariableRef("b")}}
    \cup {<<GlobalDecl("b", e2), GlobalDecl("a", e1)>> :
            e1 \in Initializers \ {VariableRef("a")},
            e2 \in Initializers \ {VariableRef("b")}}

\* main() { return a }
ReturnA == <<ReturnStatement(VariableRef("a"), "Return")>>

ProgramWith(variables, mb, gb, d, o) ==
    [funcs |-> <<[parameters |-> <<>>, body |-> mb],
                 [parameters |-> <<"p">>, body |-> gb]>>,
     variables |-> variables, div0 |-> d, oob |-> o]

Program(mb, gb, d, o) == ProgramWith(<<>>, mb, gb, d, o)

\* The outcome of a division by zero is drawn for the programs that divide,
\* the outcome of an index out of bounds for the programs that index.
Programs ==
    {Program(mb, gb, "panic", "panic") : mb \in MainBodies \cup AssignBodies, gb \in GBodies}
    \cup {Program(mb, gb, d, "panic") :
            mb \in DivisionBodies, gb \in GBodies, d \in DivideByZeroOutcomes}
    \cup {Program(mb, gb, "panic", o) :
            mb \in IndexBodies, gb \in GBodies, o \in OutOfBoundsOutcomes}
    \cup {ProgramWith(vs, ReturnA, gb, "panic", "panic") :
            vs \in Variables, gb \in GBodies}

\* InterpreterModule::from_module: the module scope with the functions and
\* the global variable x bound.
ModuleVars ==
    [n \in Names |-> CASE n = "main" -> FuncV(MainIndex)
                       [] n = "g" -> FuncV(GIndex)
                       [] n = "x" -> IntV(7)
                       [] OTHER -> Undef]

EvalInit ==
    [scopes |-> <<[parent |-> NoScope, frame |-> 0, vars |-> ModuleVars]>>,
     trace |-> <<>>, frames |-> 0, loops |-> 0, cut |-> FALSE]

NotRun == [init |-> "None", done |-> FALSE, r |-> EvOk(Nothing), scopes |-> <<>>,
           trace |-> <<>>, frames |-> 0, loops |-> 0, cut |-> FALSE]

\* The second loop of InterpreterModule::from_module: each global variable,
\* in the order of module.variables, is evaluated on a fresh child of the
\* module scope and bound in the module scope; the first Err ends the load.
RECURSIVE FromModule(_, _)
FromModuleNext(variables, c) ==
    IF c.r.k \in {"Err", "Panic"} THEN [r |-> c.r, st |-> c.st]
    ELSE FromModule(Tail(variables),
                    DeclareVar(c.st, ModuleScope, Head(variables).name, c.r.val))

FromModuleChild(variables, st1) ==
    FromModuleNext(variables, Eval(Head(variables).data, NewestScope(st1), 0, st1))

FromModule(variables, st) ==
    IF variables = <<>> THEN [r |-> EvOk(Nothing), st |-> st]
    ELSE FromModuleChild(variables, NewChild(st, ModuleScope, 0))

RunAfter(init, done, out) ==
    [init |-> init, done |-> done, r |-> out.r, scopes |-> out.st.scopes,
     trace |-> out.st.trace, frames |-> out.st.frames, loops |-> out.st.loops,
     cut |-> out.st.cut]

\* InterpreterModule::from_module
LoadFromModule ==
    /\ run.init = "None"
    /\ LET out == FromModule(program.variables, EvalInit)
       IN run' = RunAfter(IF out.r.k = "Ok" THEN "Ok" ELSE "Err", FALSE, out)
    /\ UNCHANGED program

\* The interpreter state of a module that from_module has built.
Loaded ==
    [scopes |-> run.scopes, trace |-> run.trace, frames |-> run.frames,
     loops |-> run.loops, cut |-> run.cut]

\* InterpreterFunction::call: look main up in the module scope and invoke
\* it, with no arguments, on a fresh child of the module scope.
CallMain ==
    /\ run.init = "Ok"
    /\ ~run.done
    /\ LET func == GetVar(Loaded, ModuleScope, "main")
           st1 == NewChild(Loaded, ModuleScope, 0)
           out == InvokeFunction(func, <<>>, NewestScope(st1), 0, st1)
       IN run' = RunAfter("Ok", TRUE, out)
    /\ UNCHANGED program

(***************************************************************************)
(*                                 PARSER                                  *)
(***************************************************************************)

\* Bound of the parser model.
MaxTokens == 5     \* length of the token streams parsed

\* ---- tokens ----
TokLiteral(n) == [kind |-> "Literal", n |-> n, op |-> ""]
TokMath(op) == [kind |-> "MathOperator", n |-> 0, op |-> op]
TokBool(op) == [kind |-> "BoolOperator", n |-> 0, op |-> op]
TokRoundOpen == [kind |-> "RoundOpen", n |-> 0, op |-> ""]
TokRoundClose == [kind |-> "RoundClose", n |-> 0, op |-> ""]

ParseOk(node, pos) == [ok |-> TRUE, node |-> node, pos |-> pos, err |-> ""]
ParseErr(e, pos) == [ok |-> FALSE, node |-> NoNode, pos |-> pos, err |-> e]

\* ParserScope::parse_statement and ParserScope::parse_infix over the token
\* stream toks, the cursor standing before toks[pos].
RECURSIVE ParseStatement(_, _)
RECURSIVE ParseInfix(_, _, _)
RECURSIVE InfixLoop(_, _, _)

\* parse_infix: the node and the cursor, with err = "none" when no infix
\* form was consumed (the bool of the tuple is false).
ParseInfix(node, toks, pos) ==
    IF pos > Len(toks) THEN [ParseOk(node, pos) EXCEPT !.err = "none"]
    ELSE
      LET infix == toks[pos] IN
      CASE infix.kind = "MathOperator" ->
             LET right == ParseStatement(toks, pos + 1) IN
             IF ~right.ok THEN right
             ELSE ParseOk(MathOperation(infix.op, node, right.node), right.pos)
        [] infix.kind = "BoolOperator" ->
             LET right == ParseStatement(toks, pos + 1) IN
             IF ~right.ok THEN right
             ELSE ParseOk(BoolOperation(infix.op, node, right.node), right.pos)
        [] infix.kind = "RoundOpen" ->
             \* an invocation of a node whose type is no Function
             ParseErr("NotCallable", pos + 1)
        [] OTHER -> [ParseOk(node, pos) EXCEPT !.err = "none"]

\* the loop at the end of parse_statement: parse_infix until it reports
\* that no infix form follows
InfixLoop(node, toks, pos) ==
    LET res == ParseInfix(node, toks, pos) IN
    IF ~res.ok THEN res
    ELSE IF res.err = "none" THEN ParseOk(res.node, res.pos)
    ELSE InfixLoop(res.node, toks, res.pos)

ParseStatement(toks, pos) ==
    IF pos > Len(toks) THEN ParseErr("UnexpectedEndOfFile", pos)
    ELSE
      LET token == toks[pos] IN
      CASE token.kind = "Literal" -> InfixLoop(IntLit(token.n), toks, pos + 1)
        [] token.kind = "RoundOpen" ->
             LET result == ParseStatement(toks, pos + 1) IN
             IF result.pos > Len(toks) THEN ParseErr("UnexpectedEndOfFile", result.pos)
             ELSE IF toks[result.pos].kind # "RoundClose"
               THEN ParseErr("UnexpectedToken", result.pos + 1)
             ELSE IF ~result.ok THEN [result EXCEPT !.pos = @ + 1]
             ELSE InfixLoop(result.node, toks, result.pos + 1)
        [] OTHER -> ParseErr("UnexpectedToken", pos + 1)

LiteralValues == {2, 3, 4, 10}

Alphabet ==
    {TokLiteral(n) : n \in LiteralValues}
    \cup {TokMath(op) : op \in {"Plus", "Minus", "Multiply"}}
    \cup {TokBool("Smaller"), TokRoundOpen, TokRoundClose}

TokenStreams == UNION {[1..n -> Alphabet] : n \in 1..MaxTokens}

NotParsed == [done |-> FALSE, ok |-> FALSE, node |-> NoNode, pos |-> 1, err |-> ""]

\* One parse_statement call on the whole stream.
Parse ==
    /\ ~parsed.done
    /\ LET res == ParseStatement(tokens, 1) IN
       parsed' = [done |-> TRUE, ok |-> res.ok, node |-> res.node, pos |-> res.pos,
                  err |-> res.err]
    /\ UNCHANGED tokens

(***************************************************************************)
(*                               PRE-PARSER                                *)
(***************************************************************************)

\* Bound of the pre-parser model.
MaxItems == 3      \* declarations, blank lines and stray tokens per stream

\* ---- tokens of the declaration level ----
Tk(kind) == [kind |-> kind, text |-> ""]
TkSymbol(name) == [kind |-> "Symbol", text |-> name]
TkString(path) == [kind |-> "String", text |-> path]

\* Tokens is the token vector toks with a cursor pos standing before
\* toks[pos]; has_next is pos <= Len(toks), a snapshot is the cursor.
HasNext(toks, pos) == pos <= Len(toks)

\* The token at pos is of the given kind (expect_token! on tokens.pop()).
IsAt(toks, pos, kind) == HasNext(toks, pos) /\ toks[pos].kind = kind

\* pop_until_newline: the cursor after the next NewLine, or the end
RECURSIVE PopUntilNewline(_, _)
PopUntilNewline(toks, pos) ==
    IF ~HasNext(toks, pos) THEN pos
    ELSE IF toks[pos].kind = "NewLine" THEN pos + 1
    ELSE PopUntilNewline(toks, pos + 1)

\* a variant of pop_until_dedent (the first Dedent ends the body)
RECURSIVE PopUntilFirstDedent(_, _, _)
PopUntilFirstDedent(toks, pos, indentations) ==
    IF ~HasNext(toks, pos) THEN pos
    ELSE IF toks[pos].kind = "Dedent" THEN pos + 1
    ELSE PopUntilFirstDedent(toks, pos + 1, indentations)

\* pop_until_dedent: the cursor after the Dedent that closes the body
RECURSIVE PopUntilDedent(_, _, _)
PopUntilDedent(toks, pos, indentations) ==
    IF ~HasNext(toks, pos) THEN pos
    ELSE IF toks[pos].kind = "Indent" THEN PopUntilDedent(toks, pos + 1, indentations + 1)
    ELSE IF toks[pos].kind = "Dedent"
      THEN IF indentations = 0 THEN pos + 1
           ELSE PopUntilDedent(toks, pos + 1, indentations - 1)
    ELSE PopUntilDedent(toks, pos + 1, indentations)

\* ---- DeclarationParseAction, or the error of parse_declaration ----
PdErr(e, pos) == [action |-> "Err", name |-> e, kind |-> "", body |-> 0, pos |-> pos]
PdImport(path, pos) ==
    [action |-> "Import", name |-> path, kind |-> "", body |-> 0, pos |-> pos]
PdDeclaration(name, kind, body, pos) ==
    [action |-> "Declaration", name |-> name, kind |-> kind, body |-> body, pos |-> pos]
PdNothing(pos) == [action |-> "Nothing", name |-> "", kind |-> "", body |-> 0, pos |-> pos]

\* parse_type_error on a declaration that spells no type: nothing is consumed.
ParseTypeError(toks, pos) == pos

\* parse_parameter_names on an empty parameter list: the closing parenthesis
\* is consumed (0 stands for the error).
ParseParameterNames(toks, pos) == IF IsAt(toks, pos, "RoundClose") THEN pos + 1 ELSE 0

\* import [path] NewLine, toks[pos] being the Import token
ParseImport(toks, pos) ==
    IF ~HasNext(toks, pos + 1) THEN PdErr("EndOfFile", pos + 1)
    ELSE IF toks[pos + 1].kind # "String" THEN PdErr("UnexpectedToken", pos + 2)
    ELSE IF ~IsAt(toks, pos + 2, "NewLine") THEN PdErr("UnexpectedToken", pos + 3)
    ELSE PdImport(toks[pos + 1].text, pos + 3)

\* var <name> (type) = [value], toks[pos] being the Variable token
ParseVariable(toks, pos) ==
    IF ~HasNext(toks, pos + 1) THEN PdErr("EndOfFile", pos + 1)
    ELSE IF toks[pos + 1].kind # "Symbol" THEN PdErr("UnexpectedToken", pos + 2)
    ELSE IF ~IsAt(toks, ParseTypeError(toks, pos + 2), "Assign")
      THEN PdErr("UnexpectedToken", pos + 3)
    ELSE PdDeclaration(toks[pos + 1].text, "Variable",
                       ParseTypeError(toks, pos + 2) + 1,
                       PopUntilNewline(toks, ParseTypeError(toks, pos + 2) + 1))

\* the body of a function: expect_indent!, snapshot, pop_until_dedent
ParseFunctionBody(toks, name, pos) ==
    IF ~IsAt(toks, pos, "Indent") THEN PdErr("UnexpectedToken", pos + 1)
    ELSE PdDeclaration(name, "Function", pos + 1, PopUntilDedent(toks, pos + 1, 0))

\* func <name>((<param_name> (type))*) (type): {body}, toks[pos] being the
\* Function token
ParseFunction(toks, pos) ==
    IF ~HasNext(toks, pos + 1) THEN PdErr("EndOfFile", pos + 1)
    ELSE IF toks[pos + 1].kind # "Symbol" THEN PdErr("UnexpectedToken", pos + 2)
    ELSE IF ~IsAt(toks, pos + 2, "RoundOpen") THEN PdErr("UnexpectedToken", pos + 3)
    ELSE IF ParseParameterNames(toks, pos + 3) = 0 THEN PdErr("UnexpectedToken", pos + 4)
    ELSE ParseFunctionBody(toks, toks[pos + 1].text,
                           ParseTypeError(toks, ParseParameterNames(toks, pos + 3)))

\* ModuleInitializer::parse_declaration with is_definition = false
InitializerParseDeclaration(toks, pos) ==
    IF ~HasNext(toks, pos) THEN PdErr("EndOfFile", pos)
    ELSE CASE toks[pos].kind = "Import" -> ParseImport(toks, pos)
           [] toks[pos].kind = "Variable" -> ParseVariable(toks, pos)
           [] toks[pos].kind = "Function" -> ParseFunction(toks, pos)
           [] toks[pos].kind = "NewLine" -> PdNothing(pos + 1)
           [] OTHER -> PdErr("UnexpectedToken", pos + 1)

\* LoadingModuleLoader::parse_declaration: a NewLine makes it parse again
RECURSIVE LoadingParseDeclaration(_, _)
LoadingParseDeclaration(toks, pos) ==
    IF ~HasNext(toks, pos) THEN PdErr("EndOfFile", pos)
    ELSE CASE toks[pos].kind = "Import" -> ParseImport(toks, pos)
           [] toks[pos].kind = "Variable" -> ParseVariable(toks, pos)
           [] toks[pos].kind = "Function" -> ParseFunction(toks, pos)
           [] toks[pos].kind = "NewLine" -> LoadingParseDeclaration(toks, pos + 1)
           [] OTHER -> PdErr("UnexpectedToken", pos + 1)

\* ---- the pre-parsed module, or the error of the entry point ----
PreOk(imps, decls) ==
    [status |-> "Ok", imports |-> imps, declarations |-> decls, err |-> ""]
PreErr(e) == [status |-> "Err", imports |-> <<>>, declarations |-> <<>>, err |-> e]
NotPreParsed == [status |-> "None", imports |-> <<>>, declarations |-> <<>>, err |-> ""]

\* `next` is history: where the cursor stood once the declaration was read
DeclarationOf(d) == [name |-> d.name, kind |-> d.kind, body |-> d.body, next |-> d.pos]

\* ModuleInitializer::create
RECURSIVE Create(_, _, _, _)
CreateNext(toks, imps, decls, d) ==
    CASE d.action = "Import" -> Create(toks, d.pos, Append(imps, d.name), decls)
      [] d.action = "Declaration" ->
           Create(toks, d.pos, imps, Append(decls, DeclarationOf(d)))
      [] d.action = "Nothing" -> Create(toks, d.pos, imps, decls)
      [] OTHER -> PreErr(d.name)

Create(toks, pos, imps, decls) ==
    IF ~HasNext(toks, pos) THEN PreOk(imps, decls)
    ELSE CreateNext(toks, imps, decls, InitializerParseDeclaration(toks, pos))

\* self.loader.load_module on the path of an import: the UID of the module,
\* or NotFound (0).
ImportPaths == {"m", "missing"}
LoaderLoadModule(path) == IF path = "m" THEN 1 ELSE 0

\* LoadingModuleLoader::load
RECURSIVE Load(_, _, _, _)
LoadNext(toks, imps, decls, d) ==
    CASE d.action = "Import" ->
           IF LoaderLoadModule(d.name) = 0 THEN PreErr("LoadModuleError")
           ELSE Load(toks, d.pos, Append(imps, LoaderLoadModule(d.name)), decls)
      [] d.action = "Declaration" ->
           Load(toks, d.pos, imps, Append(decls, DeclarationOf(d)))
      [] OTHER -> PreErr(d.name)

Load(toks, pos, imps, decls) ==
    IF ~HasNext(toks, pos) THEN PreOk(imps, decls)
    ELSE LoadNext(toks, imps, decls, LoadingParseDeclaration(toks, pos))

\* ---- token streams ----
\* a blank line, the declarations, a declaration that the end of the file
\* cuts short of its NewLine, and a token no declaration starts with
BlankLine == <<Tk("NewLine")>>
ImportLine(path) == <<Tk("Import"), TkString(path), Tk("NewLine")>>
VariableLine == <<Tk("Variable"), TkSymbol("x"), Tk("Assign"), Tk("Literal"), Tk("NewLine")>>
VariableNoNewLine == <<Tk("Variable"), TkSymbol("y"), Tk("Assign"), Tk("Literal")>>
FunctionLines ==
    <<Tk("Function"), TkSymbol("f"), Tk("RoundOpen"), Tk("RoundClose"),
      Tk("Indent"), Tk("Literal"), Tk("NewLine"), Tk("Dedent")>>
\* a function whose body holds a nested block, and one that the end of the
\* file cuts short of the Dedent of its body
FunctionNested ==
    <<Tk("Function"), TkSymbol("g"), Tk("RoundOpen"), Tk("RoundClose"),
      Tk("Indent"), Tk("Literal"), Tk("Indent"), Tk("Literal"), Tk("Dedent"),
      Tk("Literal"), Tk("NewLine"), Tk("Dedent")>>
FunctionUnclosed ==
    <<Tk("Function"), TkSymbol("h"), Tk("RoundOpen"), Tk("RoundClose"),
      Tk("Indent"), Tk("Literal"), Tk("Indent"), Tk("Literal"), Tk("Dedent"),
      Tk("NewLine")>>
Stray == <<Tk("Literal")>>

Items ==
    {BlankLine, VariableLine, VariableNoNewLine, FunctionLines, FunctionNested,
     FunctionUnclosed, Stray}
    \cup {ImportLine(path) : path \in ImportPaths}

RECURSIVE ItemStreams(_)
ItemStreams(n) ==
    IF n = 0 THEN {<<>>}
    ELSE ItemStreams(n - 1) \cup {st \o it : st \in ItemStreams(n - 1), it \in Items}

PreParseInit(toks) == [tokens |-> toks, created |-> NotPreParsed, loaded |-> NotPreParsed]

\* ModuleInitializer::create on the token stream
ModuleInitializerCreate ==
    /\ preparse.created = NotPreParsed
    /\ preparse' = [preparse EXCEPT !.created = Create(preparse.tokens, 1, <<>>, <<>>)]

\* LoadingModuleLoader::load on the token stream
LoadingModuleLoaderLoad ==
    /\ preparse.loaded = NotPreParsed
    /\ preparse' = [preparse EXCEPT !.loaded = Load(preparse.tokens, 1, <<>>, <<>>)]

(***************************************************************************)
(*                              WASM LOWERING                              *)
(***************************************************************************)

\* Bound of the lowering model.
MaxFuncs == 2      \* functions of the module handed to WasmBuilder

\* ---- wasm_encoder::Instruction ----
Ins(op, arg) == [op |-> op, arg |-> arg]

\* position(|l| l == name): the 0-based index of the first match, -1 if none
Position(names, name) ==
    IF \E i \in 1..Len(names) : names[i] = name
      THEN (CHOOSE i \in 1..Len(names) :
                names[i] = name /\ \A j \in 1..(i - 1) : names[j] # name) - 1
    ELSE 0 - 1

\* ---- FunctionBuilder: the locals, the instructions of func, and the
\* error that ended the build; `lowered` is the history of the for and
\* while statements that build_statement has gone through, `resolved` the
\* history of the names get_local has resolved ----
NewFunctionBuilder(locals) ==
    [ok |-> TRUE, err |-> "", locals |-> locals, instrs |-> <<>>, lowered |-> <<>>,
     resolved |-> <<>>]

Emit(fb, ins) == IF fb.ok THEN [fb EXCEPT !.instrs = Append(@, ins)] ELSE fb
Fail(fb, e) == IF fb.ok THEN [fb EXCEPT !.ok = FALSE, !.err = e] ELSE fb
PushLocal(fb, name) == [fb EXCEPT !.locals = Append(@, name)]

\* history: the statement of this kind started at instruction `from` and
\* build_statement left it at instruction `to`
LogLowered(before, after, kind) ==
    [after EXCEPT !.lowered = Append(@, [kind |-> kind, from |-> Len(before.instrs),
                                         to |-> Len(after.instrs), ok |-> after.ok])]

\* history: get_local has resolved name to local, with these locals declared
LogResolved(fb, name, local) ==
    [fb EXCEPT !.resolved = Append(@, [name |-> name, local |-> local,
                                       locals |-> fb.locals])]

\* get_local(name)?, then the instruction that uses the local
WithLocal(fb, name, op) ==
    IF ~fb.ok THEN fb
    ELSE IF Position(fb.locals, name) < 0 THEN Fail(fb, "LOCAL_NOT_FOUND")
    ELSE LogResolved(Emit(fb, Ins(op, Position(fb.locals, name))),
                     name, Position(fb.locals, name))

MathInstruction(operation) ==
    CASE operation = "Plus" -> "I32Add"
      [] operation = "Minus" -> "I32Sub"
      [] operation = "Multiply" -> "I32Mul"
      [] operation = "Divide" -> "I32DivS"

BoolInstruction(operation) ==
    CASE operation = "Equal" -> "I32Eq"
      [] operation = "Different" -> "I32Ne"
      [] operation = "Bigger" -> "I32GtS"
      [] operation = "Smaller" -> "I32LtS"
      [] operation = "BiggerEq" -> "I32GeS"
      [] operation = "SmallerEq" -> "I32LeS"

\* FunctionBuilder::build_statement; funcs is ModuleBuilder.functions. A
\* builder that has failed stands for the Err that `?` hands upwards.
RECURSIVE BuildStatement(_, _, _)
RECURSIVE BuildStatements(_, _, _)
BuildStatements(nodes, funcs, fb) ==
    IF nodes = <<>> \/ ~fb.ok THEN fb
    ELSE BuildStatements(Tail(nodes), funcs, BuildStatement(Head(nodes), funcs, fb))

BuildInvok(node, funcs, fb) ==
    IF node.variable.kind # "VariableRef" THEN Fail(fb, "UNSUPPORTED_FUNC_INVOKE")
    ELSE IF Position(funcs, node.variable.name) < 0 THEN Fail(fb, "FUNC_NOT_FOUND")
    ELSE Emit(BuildStatements(node.parameters, funcs, fb),
              Ins("Call", Position(funcs, node.variable.name)))

BuildStatement(node, funcs, fb) ==
    IF ~fb.ok THEN fb
    ELSE CASE node.kind = "VariableDecl" ->
                Emit(BuildStatement(node.value, funcs, PushLocal(fb, node.name)),
                     Ins("LocalSet", Len(fb.locals)))
           [] node.kind = "VariableRef" -> WithLocal(fb, node.name, "LocalGet")
           [] node.kind = "VariableAsgn" ->
                WithLocal(BuildStatement(node.value, funcs, fb), node.name, "LocalSet")
           [] node.kind = "FunctionInvok" -> BuildInvok(node, funcs, fb)
           [] node.kind = "Literal" ->
                IF node.value.t = "Int" THEN Emit(fb, Ins("I32Const", node.value.v)) ELSE fb
           [] node.kind = "MathOperation" ->
                Emit(BuildStatement(node.right, funcs, BuildStatement(node.left, funcs, fb)),
                     Ins(MathInstruction(node.operation), 0))
           [] node.kind = "BoolOperation" ->
                Emit(BuildStatement(node.right, funcs, BuildStatement(node.left, funcs, fb)),
                     Ins(BoolInstruction(node.operation), 0))
           [] node.kind = "ReturnStatement" ->
                IF node.value = NoNode THEN Emit(fb, Ins("Return", 0))
                ELSE Emit(BuildStatement(node.value, funcs, fb), Ins("Return", 0))
           [] node.kind = "IfStatement" ->
                Emit(BuildStatements(node.body, funcs,
                                     Emit(BuildStatement(node.condition, funcs, fb),
                                          Ins("If", 0))),
                     Ins("End", 0))
           [] node.kind \in {"ForStatement", "WhileStatement"} ->
                LogLowered(fb, fb, node.kind)
           [] OTHER -> fb

\* ---- the module: functions with their names, parameters and bodies ----
WasmFunction(name, params, ret, body) ==
    [name |-> name, params |-> params, ret |-> ret, body |-> body]

FunctionNames(functions) == [i \in 1..Len(functions) |-> functions[i].name]

\* One function of ModuleBuilderResult: the body lowered statement by
\* statement on a builder whose locals are the parameters, then end_build.
BuildFunction(func, funcs) ==
    Emit(BuildStatements(func.body, funcs, NewFunctionBuilder(func.params)), Ins("End", 0))

\* ModuleBuilder::insert_module and ModuleBuilder::build: the functions of
\* the module in their order, each with its lowered code.
ModuleBuilderBuild(functions) ==
    [i \in 1..Len(functions) |-> BuildFunction(functions[i], FunctionNames(functions))]

\* ---- wasm_encoder sections ----
Section(id, entries) == [id |-> id, entries |-> entries]

\* WasmBuilder::build_types: one function type per function
BuildTypes(functions) ==
    Section("Type", [i \in 1..Len(functions) |->
                        [params |-> [j \in 1..Len(functions[i].params) |-> "I32"],
                         results |-> IF functions[i].ret = "None" THEN <<>>
                                     ELSE <<functions[i].ret>>]])

\* a variant of build_functions (every function given type index 0)
BuildFunctionsAllZero(functions) ==
    Section("Function", [i \in 1..Len(functions) |-> 0])

\* WasmBuilder::build_functions: function i is of type i
BuildFunctions(functions) ==
    Section("Function", [i \in 1..Len(functions) |-> i - 1])

\* WasmBuilder::build_exports: function i is exported under its name
BuildExports(functions) ==
    Section("Export", [i \in 1..Len(functions) |->
                          [name |-> functions[i].name, kind |-> "Function",
                           index |-> i - 1]])

\* WasmBuilder::build_code: the locals and the instructions of each function
BuildCode(result) ==
    Section("Code", [i \in 1..Len(result) |->
                        [locals |-> Len(result[i].locals), instrs |-> result[i].instrs]])

NotBuilt == [status |-> "None", err |-> "", result |-> <<>>, sections |-> <<>>]

\* WasmBuilder::build over the result of the module builder
BuildSections(functions, result) ==
    IF \E i \in 1..Len(result) : ~result[i].ok
      THEN [status |-> "Err",
            err |-> result[CHOOSE i \in 1..Len(result) :
                              ~result[i].ok /\ \A j \in 1..(i - 1) : result[j].ok].err,
            result |-> result, sections |-> <<>>]
    ELSE [status |-> "Ok", err |-> "", result |-> result,
          sections |-> <<BuildTypes(functions), BuildFunctions(functions),
                         BuildExports(functions), BuildCode(result)>>]

\* ---- modules to lower ----
ForLoop == ForStatement("i", IntLit(0), IntLit(2), <<VariableDecl("x", VariableRef("i"))>>)
WhileLoop ==
    WhileStatement(BoolOperation("Smaller", IntLit(0), IntLit(1)),
                   <<ReturnStatement(NoNode, "Break")>>)

WasmBodies ==
    {<<ReturnStatement(IntLit(1), "Return")>>,
     <<VariableDecl("x", IntLit(1)), ReturnStatement(VariableRef("x"), "Return")>>,
     <<ForLoop>>,
     <<WhileLoop, ReturnStatement(IntLit(0), "Return")>>,
     <<IfStatement(VariableRef("p"), <<ForLoop>>)>>,
     <<ReturnStatement(CallG, "Return")>>,
     <<VariableAsgn("u", IntLit(1)), WhileLoop>>,
     <<VariableDecl("x", IntLit(1)), VariableDecl("x", IntLit(2)),
       ReturnStatement(VariableRef("x"), "Return")>>,
     <<VariableDecl("p", IntLit(1)), VariableAsgn("p", IntLit(2))>>,
     <<ReturnStatement(MathOperation("Plus", VariableRef("p"), IntLit(1)), "Return")>>}

WasmFunctions ==
    {WasmFunction(name, <<"p">>, "I32", body) : name \in {"f", "g"}, body \in WasmBodies}

RECURSIVE WasmModules(_)
WasmModules(n) ==
    IF n = 0 THEN {<<>>}
    ELSE WasmModules(n - 1)
         \cup {Append(m, f) : m \in WasmModules(n - 1), f \in WasmFunctions}

WasmInit(functions) == [functions |-> functions, out |-> NotBuilt]

\* WasmBuilder::build
WasmBuild ==
    /\ wasm.out = NotBuilt
    /\ wasm' = [wasm EXCEPT !.out = BuildSections(wasm.functions,
                                                  ModuleBuilderBuild(wasm.functions))]

(***************************************************************************)
(*                                TOKENIZER                                *)
(***************************************************************************)

\* Bounds of the tokenizer model.
MaxChars == 5      \* characters that reach tokenize_char with a result to handle
MaxIndent == 3     \* widest leading run of whitespace

Last(stack) == stack[Len(stack)]
Front(stack) == SubSeq(stack, 1, Len(stack) - 1)

\* The Tokenizer while it runs: the indentation stack, the kinds of the
\* tokens pushed so far (their offsets are left out), the error that ended
\* the run, the number of characters handled, and `last`, the history of the
\* latest ChangeIndentation: its new_indent, the stack it found and the
\* tokens it pushed.
NoChange == [new_indent |-> 0 - 1, before |-> <<>>, emitted |-> <<>>]

Tokenizing(stack, toks, e) == [indentation_stack |-> stack, tokens |-> toks, err |-> e]

\* Tokenizer::tokenize up to its loop: indentation_stack: vec![0]
TokenizerInit ==
    [indentation_stack |-> <<0>>, tokens |-> <<>>, err |-> "", chars |-> 0,
     last |-> NoChange]

\* The loop of the ChangeIndentation arm: push a Dedent, then leave when
\* the top is new_indent, fail when the stack is empty, pop otherwise.
RECURSIVE DedentLoop(_, _, _)
\* a variant of the match (the bottom level is kept and no error raised)
DedentLoopNextKeepsBottom(stack, toks, new_indent) ==
    IF stack = <<>> THEN Tokenizing(stack, toks, "InvalidIndent")
    ELSE IF Last(stack) = new_indent \/ Len(stack) = 1 THEN Tokenizing(stack, toks, "")
    ELSE DedentLoop(Front(stack), toks, new_indent)

DedentLoopNext(stack, toks, new_indent) ==
    IF stack = <<>> THEN Tokenizing(stack, toks, "InvalidIndent")
    ELSE IF Last(stack) = new_indent THEN Tokenizing(stack, toks, "")
    ELSE DedentLoop(Front(stack), toks, new_indent)

\* a variant of the loop (one Dedent for the whole run of pops)
RECURSIVE DedentLoopOneToken(_, _, _)
DedentLoopOneToken(stack, toks, new_indent) ==
    IF stack = <<>> THEN Tokenizing(stack, Append(toks, "Dedent"), "InvalidIndent")
    ELSE IF Last(stack) = new_indent THEN Tokenizing(stack, Append(toks, "Dedent"), "")
    ELSE DedentLoopOneToken(Front(stack), toks, new_indent)

DedentLoop(stack, toks, new_indent) ==
    DedentLoopNext(stack, Append(toks, "Dedent"), new_indent)

\* a variant of the dedent branch (the first level is not popped up front)
DedentKeepsTop(stack, toks, new_indent) == DedentLoop(stack, toks, new_indent)

\* new_indent < top: one level is popped, then the loop runs
Dedent(stack, toks, new_indent) == DedentLoop(Front(stack), toks, new_indent)

\* the else branch: push an Indent token and the new level
Indent(stack, toks, new_indent) ==
    Tokenizing(Append(stack, new_indent), Append(toks, "Indent"), "")

\* tokenize_char: the arm AddResult::ChangeIndentation(new_indent, char)
HandleChangeIndentation(stack, toks, new_indent) ==
    IF new_indent < Last(stack) THEN Dedent(stack, toks, new_indent)
    ELSE Indent(stack, toks, new_indent)

TokenizerAfter(out, new_indent) ==
    [indentation_stack |-> out.indentation_stack, tokens |-> out.tokens,
     err |-> out.err, chars |-> tokenizer.chars + 1,
     last |-> [new_indent |-> new_indent, before |-> tokenizer.indentation_stack,
               emitted |-> SubSeq(out.tokens, Len(tokenizer.tokens) + 1, Len(out.tokens))]]

Running == tokenizer.err = "" /\ tokenizer.chars < MaxChars

\* What Tokenizer::tokenize returns once the characters are used up: the
\* error that `?` handed out of the loop, or the tokens.
TokenizeResult ==
    IF tokenizer.err # "" THEN [ok |-> FALSE, err |-> tokenizer.err, tokens |-> <<>>]
    ELSE [ok |-> TRUE, err |-> "", tokens |-> tokenizer.tokens]

\* A character for which the whitespace resolver answers
\* ChangeIndentation(new_indent, char); the resolver chosen for char then
\* absorbs it.
ChangeIndentation(new_indent) ==
    /\ Running
    /\ tokenizer' = TokenizerAfter(HandleChangeIndentation(tokenizer.indentation_stack,
                                                           tokenizer.tokens, new_indent),
                                   new_indent)

\* A character for which the current resolver answers OkToken(token).
OkToken(token) ==
    /\ Running
    /\ tokenizer' = [tokenizer EXCEPT !.tokens = Append(@, token),
                                      !.chars = @ + 1, !.last = NoChange]

\* A character for which the current resolver answers Err(err).
AddErr(e) ==
    /\ Running
    /\ tokenizer' = [tokenizer EXCEPT !.err = e, !.chars = @ + 1, !.last = NoChange]

(***************************************************************************)
(*                            OPERATOR RESOLVER                            *)
(***************************************************************************)

\* Bound of the operator resolver model.
MaxOperatorChars == 3   \* characters absorbed before the run has to end

\* the characters of the first arm of OperatorResolver::add
OperatorChars == {"=", ".", ",", "!", ">", "<", "+", "-", "*", "/", "%", "^", ":", "@"}

\* characters of the second arm: a letter, a digit, a blank, a line end
OtherChars == {"a", "1", " ", "\n"}

OperatorToken(kind, op) == [kind |-> kind, op |-> op]
NoToken == [kind |-> "", op |-> ""]

\* OperatorResolver::end_operator: the token of the accumulated string
\* (NoToken stands for Err(InvalidOperatorToken))
EndOperatorTable(chars) ==
    CASE chars = <<"=">> -> OperatorToken("Operator", "Assign")
      [] chars = <<".", ".">> -> OperatorToken("Operator", "Range")
      [] chars = <<",">> -> OperatorToken("Operator", "Comma")
      [] chars = <<".">> -> OperatorToken("Operator", "Dot")
      [] chars = <<":">> -> OperatorToken("Operator", "Colon")
      [] chars = <<"@">> -> OperatorToken("Operator", "At")
      [] chars = <<"+">> -> OperatorToken("MathOperator", "Plus")
      [] chars = <<"-">> -> OperatorToken("MathOperator", "Minus")
      [] chars = <<"*">> -> OperatorToken("MathOperator", "Multiply")
      [] chars = <<"/">> -> OperatorToken("MathOperator", "Divide")
      [] chars = <<"%">> -> OperatorToken("MathOperator", "Modulus")
      [] chars = <<"^">> -> OperatorToken("MathOperator", "Power")
      [] chars = <<"=", "=">> -> OperatorToken("BoolOperator", "Equal")
      [] chars = <<"!", "=">> -> OperatorToken("BoolOperator", "Different")
      [] chars = <<">">> -> OperatorToken("BoolOperator", "Bigger")
      [] chars = <<"<">> -> OperatorToken("BoolOperator", "Smaller")
      [] chars = <<">", "=">> -> OperatorToken("BoolOperator", "BiggerEq")
      [] chars = <<"<", "=">> -> OperatorToken("BoolOperator", "SmallerEq")
      [] OTHER -> NoToken

\* a variant of end_operator (an unknown run resolves to its first character)
EndOperatorFirstChar(chars) ==
    IF EndOperatorTable(chars) # NoToken \/ chars = <<>> THEN EndOperatorTable(chars)
    ELSE EndOperatorTable(<<chars[1]>>)

EndOperator(chars) == EndOperatorTable(chars)

\* ---- AddResult ----
AddOk == [kind |-> "Ok", token |-> NoToken, char |-> "", err |-> ""]
AddChange(token, char) == [kind |-> "Change", token |-> token, char |-> char, err |-> ""]
AddResultErr(e) == [kind |-> "Err", token |-> NoToken, char |-> "", err |-> e]
NoAddResult == [kind |-> "None", token |-> NoToken, char |-> "", err |-> ""]

\* OperatorResolver::add: the result, and the chars field afterwards
AddResultOf(chars, char) ==
    IF char \in OperatorChars THEN AddOk
    ELSE IF EndOperator(chars) # NoToken THEN AddChange(EndOperator(chars), char)
    ELSE AddResultErr("InvalidOperatorToken")

CharsAfter(chars, char) == IF char \in OperatorChars THEN Append(chars, char) ELSE chars

\* resolver_from_char on an operator character and the re-feed of that
\* character: a fresh OperatorResolver that has absorbed it. `results` is
\* the history of the AddResults of this resolver.
ResolverInit(char) == [chars |-> <<char>>, results |-> <<AddOk>>]
NoResolver == [chars |-> <<>>, results |-> <<>>]

Ended(r) == r.results # <<>> /\ r.results[Len(r.results)].kind # "Ok"

\* the tokenizer meets an operator character outside an operator run
StartOperator(char) ==
    /\ resolver = NoResolver
    /\ resolver' = ResolverInit(char)

\* OperatorResolver::add(char); after Change or Err the tokenizer leaves
\* this resolver
Add(char) ==
    /\ resolver # NoResolver
    /\ ~Ended(resolver)
    /\ char \in OperatorChars => Len(resolver.chars) < MaxOperatorChars
    /\ resolver' = [chars |-> CharsAfter(resolver.chars, char),
                    results |-> Append(resolver.results, AddResultOf(resolver.chars, char))]

(***************************************************************************)
(*                     TYPE CHECKING IN ParserScope                        *)
(***************************************************************************)
\* parse_statement and parse_infix of parser/src/parser_scope.rs and the
\* function arm of parser/src/parser.rs, reduced to what they do with types:
\* the scope chain of declared names, the eval_type of every node built, the
\* eval_type cell of the scope, and the is_compatible tests.  The statements
\* are given as trees of the forms the token stream spells.

\* Bounds of the type-checking model.
MaxStatements == 2   \* statements of a function body

\* ---- TypeKind ----
TNothing == [k |-> "Nothing", f |-> {}]
TInt == [k |-> "Int", f |-> {}]
TBool == [k |-> "Bool", f |-> {}]
TObject(fields) == [k |-> "Object", f |-> fields]
TFunction(args, ret) == [k |-> "Function", f |-> {}, args |-> args, ret |-> ret]
NoType == [k |-> "None", f |-> {}]

\* TypeKind::is_compatible: identical primitives; Object(F1) with Object(F2)
\* iff F1 is contained in F2 (every field here is an Int).
IsCompatible(self, other) ==
    IF self.k = "Object" /\ other.k = "Object"
    THEN self.f \subseteq other.f
    ELSE self = other

\* ---- ParserScope: names, types and the eval_type cell; the chain of
\* ---- parents is the sequence below the last scope, the module first ----
NewScope(names, types) == [names |-> names, types |-> types, eval_type |-> TNothing]

\* ParserScope::new_child
NewChildScope(scopes) == Append(scopes, NewScope(<<>>, <<>>))

\* The latest declaration of the name in one scope, 0 if it has none.
LatestIn(scope, name) ==
    LET found == {i \in 1..Len(scope.names) : scope.names[i] = name}
    IN  IF found = {} THEN 0 ELSE CHOOSE i \in found : \A j \in found : j <= i

\* ParserScope::get: the scope's own names from the latest to the earliest,
\* then the parent.
RECURSIVE ScopeGet(_, _)
ScopeGet(scopes, name) ==
    IF scopes = <<>> THEN NoType
    ELSE LET scope == scopes[Len(scopes)]
             i == LatestIn(scope, name)
         IN  IF i # 0 THEN scope.types[i]
             ELSE ScopeGet(SubSeq(scopes, 1, Len(scopes) - 1), name)

\* ParserScope::declare
ScopeDeclare(scopes, name, type_kind) ==
    LET n == Len(scopes)
    IN  [scopes EXCEPT ![n].names = Append(@, name),
                       ![n].types = Append(@, type_kind)]

\* ---- the statements parsed ----
SrcLiteral(type) == [src |-> "Literal", type |-> type]
SrcSymbol(name) == [src |-> "Symbol", name |-> name]
SrcVariable(name, assign_type, value) ==
    [src |-> "Variable", name |-> name, assign_type |-> assign_type, value |-> value]
SrcAssign(name, value) == [src |-> "Assign", name |-> name, value |-> value]
SrcInvok(name, parameter) == [src |-> "Invok", name |-> name, parameter |-> parameter]
SrcReturn(value) == [src |-> "Return", value |-> value]
SrcReturnNothing == [src |-> "Return", value |-> [src |-> "None"]]
SrcIf(condition, body) == [src |-> "If", condition |-> condition, body |-> body]

\* ---- the parser's progress: the scope chain, and the history of every
\* ---- place where a parent demands a type of its child ----
TypeSite(site, demanded, supplied) ==
    [site |-> site, demanded |-> demanded, supplied |-> supplied]

CheckState(scopes, ret) == [scopes |-> scopes, sites |-> <<>>, ret |-> ret]

LogSite(st, site, demanded, supplied) ==
    [st EXCEPT !.sites = Append(@, TypeSite(site, demanded, supplied))]

\* ASTNode::new(kind, eval_type)
TypedNode(kind, eval_type) == [kind |-> kind, eval_type |-> eval_type]

CheckOk(node, st) == [ok |-> TRUE, err |-> "", node |-> node, st |-> st]
CheckErr(e, st) == [ok |-> FALSE, err |-> e, node |-> TypedNode("None", TNothing), st |-> st]

\* TokenKind::Variable, once the value is parsed: a declared type must be
\* compatible with the value's, and becomes the type of the name.
VariableChecked(src, value) ==
    IF ~value.ok THEN value
    ELSE IF src.assign_type = NoType
    THEN CheckOk(TypedNode("VariableDecl", value.node.eval_type),
                 [value.st EXCEPT !.scopes =
                     ScopeDeclare(@, src.name, value.node.eval_type)])
    ELSE IF ~IsCompatible(src.assign_type, value.node.eval_type)
    THEN CheckErr("WrongType", value.st)
    ELSE CheckOk(TypedNode("VariableDecl", src.assign_type),
                 LogSite([value.st EXCEPT !.scopes =
                             ScopeDeclare(@, src.name, src.assign_type)],
                         "declaration", src.assign_type, value.node.eval_type))

\* parse_infix on `(`, once the parameter is parsed: the node must be a
\* function of as many arguments, each parameter compatible with its argument
\* type.
InvokChecked(node_type, parameter) ==
    IF ~parameter.ok THEN parameter
    ELSE IF node_type.k # "Function" THEN CheckErr("NotCallable", parameter.st)
    ELSE IF Len(node_type.args) # 1 THEN CheckErr("InvalidArgCount", parameter.st)
    ELSE IF ~IsCompatible(parameter.node.eval_type, node_type.args[1])
    THEN CheckErr("WrongType", parameter.st)
    ELSE CheckOk(TypedNode("FunctionInvok", node_type.ret),
                 LogSite(parameter.st, "argument", node_type.args[1],
                         parameter.node.eval_type))

\* parse_infix on `=`, once the value is parsed: a VariableAsgn of type
\* Nothing, whatever the type of the value.
AssignChecked(node_type, value) ==
    IF ~value.ok THEN value
    ELSE CheckOk(TypedNode("VariableAsgn", TNothing),
                 LogSite(value.st, "assignment", node_type, value.node.eval_type))

\* TokenKind::Return: the value's type replaces the eval_type cell of the
\* scope the statement is parsed in.
ReturnChecked(value_type, st) ==
    CheckOk(TypedNode("ReturnStatement", TNothing),
            LogSite([st EXCEPT !.scopes[Len(st.scopes)].eval_type = value_type],
                    "return", st.ret, value_type))

\* TokenKind::If, once the body is parsed in a child scope: the child is
\* dropped.
IfChecked(body) ==
    IF ~body.ok THEN body
    ELSE CheckOk(TypedNode("IfStatement", TNothing),
                 [body.st EXCEPT !.scopes = SubSeq(@, 1, Len(@) - 1)])

RECURSIVE CheckStatement(_, _)
RECURSIVE CheckBody(_, _)

\* ParserScope::parse_statement, with the infix that follows the node.
CheckStatement(src, st) ==
    CASE src.src = "Literal" -> CheckOk(TypedNode("Literal", src.type), st)
      [] src.src = "Symbol" ->
            IF ScopeGet(st.scopes, src.name) = NoType
            THEN CheckErr("VarNotFound", st)
            ELSE CheckOk(TypedNode("VariableRef", ScopeGet(st.scopes, src.name)), st)
      [] src.src = "Variable" ->
            VariableChecked(src, CheckStatement(src.value, st))
      [] src.src = "Invok" ->
            IF ScopeGet(st.scopes, src.name) = NoType
            THEN CheckErr("VarNotFound", st)
            ELSE InvokChecked(ScopeGet(st.scopes, src.name),
                              CheckStatement(src.parameter, st))
      [] src.src = "Assign" ->
            IF ScopeGet(st.scopes, src.name) = NoType
            THEN CheckErr("VarNotFound", st)
            ELSE AssignChecked(ScopeGet(st.scopes, src.name),
                               CheckStatement(src.value, st))
      [] src.src = "Return" ->
            IF src.value.src = "None" THEN ReturnChecked(TNothing, st)
            ELSE LET value == CheckStatement(src.value, st)
                 IN  IF ~value.ok THEN value
                     ELSE ReturnChecked(value.node.eval_type, value.st)
      [] src.src = "If" ->
            LET condition == CheckStatement(src.condition, st)
            IN  IF ~condition.ok THEN condition
                ELSE IfChecked(CheckBody(src.body,
                        [condition.st EXCEPT !.scopes = NewChildScope(@)]))

\* The rest of a body once a statement is parsed.
CheckBodyNext(statement, rest) ==
    IF ~statement.ok THEN statement ELSE CheckBody(rest, statement.st)

\* ParserScope::parse_body: the statements one after the other in this scope.
CheckBody(body, st) ==
    IF body = <<>> THEN CheckOk(TypedNode("Body", TNothing), st)
    ELSE CheckBodyNext(CheckStatement(Head(body), st), Tail(body))

\* ---- a function declaration: the module's globals, the declared return
\* ---- type and the body ----
FunctionSource(globals, ret_type, body) ==
    [globals |-> globals, ret_type |-> ret_type, body |-> body]

\* The function arm once the body is parsed: the eval_type cell of the body
\* scope must be compatible with the declared return type.
FunctionChecked(ret_type, body) ==
    IF ~body.ok THEN [status |-> "Err", err |-> body.err, sites |-> body.st.sites]
    ELSE IF ~IsCompatible(body.st.scopes[Len(body.st.scopes)].eval_type, ret_type)
    THEN [status |-> "Err", err |-> "WrongType", sites |-> body.st.sites]
    ELSE [status |-> "Ok", err |-> "", sites |-> body.st.sites]

\* TokenKind::Function: the body is parsed in a child of the scope.
CheckFunction(source) ==
    FunctionChecked(source.ret_type,
        CheckBody(source.body,
                  CheckState(NewChildScope(<<source.globals>>), source.ret_type)))

\* ---- the functions checked ----
ObjectP == TObject({"p"})
ObjectPQ == TObject({"p", "q"})
ReturnTypes == {TNothing, TInt, TBool}

\* The module declares g, a function of one argument.
Globals(arg_type) == NewScope(<<"g">>, <<TFunction(<<arg_type>>, TNothing)>>)

SrcValues == {SrcLiteral(TInt), SrcLiteral(ObjectP), SrcSymbol("x")}
SrcReturns == {SrcReturn(SrcLiteral(TInt)), SrcReturn(SrcLiteral(TBool)), SrcReturnNothing}

\* Declarations of x, with a type or without, whose value has the declared
\* type, another primitive type, or an Object type with more or fewer fields.
SrcDeclarations ==
    {SrcVariable("x", NoType, SrcLiteral(TInt)),
     SrcVariable("x", TInt, SrcLiteral(TInt)),
     SrcVariable("x", TInt, SrcLiteral(ObjectP)),
     SrcVariable("x", ObjectP, SrcLiteral(ObjectP)),
     SrcVariable("x", ObjectP, SrcLiteral(ObjectPQ)),
     SrcVariable("x", ObjectPQ, SrcLiteral(ObjectP))}

SrcStatements ==
    SrcDeclarations
        \cup {SrcAssign("x", SrcLiteral(t)) : t \in {TInt, TBool}}
        \cup {SrcInvok("g", v) : v \in SrcValues}
        \cup SrcReturns
        \cup {SrcIf(SrcLiteral(TBool), <<r>>) : r \in SrcReturns}

RECURSIVE SrcBodies(_)
SrcBodies(n) ==
    IF n = 0 THEN {<<>>}
    ELSE SrcBodies(n - 1)
            \cup {Append(b, s) : b \in {c \in SrcBodies(n - 1) : Len(c) = n - 1},
                                 s \in SrcStatements}

FunctionSources ==
    {FunctionSource(Globals(a), r, b) :
        a \in {TInt, ObjectP}, r \in ReturnTypes, b \in SrcBodies(MaxStatements)}

NotChecked == [status |-> "None", err |-> "", sites |-> <<>>]

CheckInit(source) == [source |-> source, out |-> NotChecked]

\* parse_statement meets a function declaration.
ParseFunctionDeclaration ==
    /\ checked.out.status = "None"
    /\ checked' = [checked EXCEPT !.out = CheckFunction(checked.source)]

(***************************************************************************)
(*                             SPECIFICATIONS                              *)
(***************************************************************************)

\* A subsystem is idle while another one is under study.
IdleEval == program = [funcs |-> <<>>] /\ run = NotRun
IdleParser == tokens = <<>> /\ parsed = NotParsed
IdlePreParser == preparse = PreParseInit(<<>>)
IdleWasm == wasm = WasmInit(<<>>)
IdleTokenizer == tokenizer = TokenizerInit
IdleResolver == resolver = NoResolver
IdleTypeCheck == checked = CheckInit(FunctionSource(Globals(TNothing), TNothing, <<>>))

\* Import lists are kept in a fixed order; a module does not import itself.
SortedSeqs(S) ==
    {<<>>} \cup {<<x>> : x \in S}
           \cup {<<p[1], p[2]>> : p \in {q \in S \X S : UidTable[q[2]] > UidTable[q[1]]}}

ImportGraphs ==
    {g \in [Ids -> SortedSeqs(Ids)] :
        /\ \A m \in Ids : \A k \in 1..Len(g[m]) : g[m][k] # m
        /\ Len(g["a"]) + Len(g["b"]) + Len(g["c"]) + Len(g["d"]) <= MaxEdges}

\* At most one module of the importer world is faulty.
FaultMaps ==
    {f \in [Ids -> Faults] : Cardinality({m \in Ids : f[m] # "ok"}) <= 1}

\* The loader is idle while another subsystem is under study.
IdleLoader ==
    /\ imports = [m \in Ids |-> <<>>]
    /\ fault = [m \in Ids |-> "ok"]
    /\ modules = [u \in Uids |-> NoModule]
    /\ nextArc = 1
    /\ calls = 0
    /\ lastLoad = NoLoad
    /\ loaded = {}
    /\ alive = TRUE

InitLoader ==
    /\ imports \in ImportGraphs
    /\ fault \in FaultMaps
    /\ modules = [u \in Uids |-> NoModule]
    /\ nextArc = 1
    /\ calls = 0
    /\ lastLoad = NoLoad
    /\ loaded = {}
    /\ alive = TRUE
    /\ IdleEval
    /\ IdleParser
    /\ IdlePreParser
    /\ IdleWasm
    /\ IdleTokenizer
    /\ IdleResolver
    /\ IdleTypeCheck

NextLoader ==
    /\ \E id \in Ids : LoadModule(id)
    /\ UNCHANGED <<evalVars, parserVars, preparserVars, wasmVars, tokenizerVars, resolverVars, typeVars>>

SpecLoader == InitLoader /\ [][NextLoader]_vars

InitEval ==
    /\ program \in Programs
    /\ run = NotRun
    /\ IdleLoader
    /\ IdleParser
    /\ IdlePreParser
    /\ IdleWasm
    /\ IdleTokenizer
    /\ IdleResolver
    /\ IdleTypeCheck

NextEval ==
    /\ (LoadFromModule \/ CallMain)
    /\ UNCHANGED <<loaderVars, parserVars, preparserVars, wasmVars, tokenizerVars, resolverVars, typeVars>>

SpecEval == InitEval /\ [][NextEval]_vars

InitParser ==
    /\ tokens \in TokenStreams
    /\ parsed = NotParsed
    /\ IdleLoader
    /\ IdleEval
    /\ IdlePreParser
    /\ IdleWasm
    /\ IdleTokenizer
    /\ IdleResolver
    /\ IdleTypeCheck

NextParser ==
    /\ Parse
    /\ UNCHANGED <<loaderVars, evalVars, preparserVars, wasmVars, tokenizerVars, resolverVars, typeVars>>

SpecParser == InitParser /\ [][NextParser]_vars

InitPreParser ==
    /\ preparse \in {PreParseInit(toks) : toks \in ItemStreams(MaxItems)}
    /\ IdleLoader
    /\ IdleEval
    /\ IdleParser
    /\ IdleWasm
    /\ IdleTokenizer
    /\ IdleResolver
    /\ IdleTypeCheck

NextPreParser ==
    /\ (ModuleInitializerCreate \/ LoadingModuleLoaderLoad)
    /\ UNCHANGED <<loaderVars, evalVars, parserVars, wasmVars, tokenizerVars, resolverVars, typeVars>>

SpecPreParser == InitPreParser /\ [][NextPreParser]_vars

InitWasm ==
    /\ wasm \in {WasmInit(functions) : functions \in WasmModules(MaxFuncs)}
    /\ IdleLoader
    /\ IdleEval
    /\ IdleParser
    /\ IdlePreParser
    /\ IdleTokenizer
    /\ IdleResolver
    /\ IdleTypeCheck

NextWasm ==
    /\ WasmBuild
    /\ UNCHANGED <<loaderVars, evalVars, parserVars, preparserVars, tokenizerVars, resolverVars, typeVars>>

SpecWasm == InitWasm /\ [][NextWasm]_vars

InitTokenizer ==
    /\ tokenizer = TokenizerInit
    /\ IdleLoader
    /\ IdleEval
    /\ IdleParser
    /\ IdlePreParser
    /\ IdleWasm
    /\ IdleResolver
    /\ IdleTypeCheck

NextTokenizer ==
    /\ \/ \E new_indent \in 0..MaxIndent : ChangeIndentation(new_indent)
       \/ OkToken("NewLine")
       \/ AddErr("InvalidOperatorToken")
    /\ UNCHANGED <<loaderVars, evalVars, parserVars, preparserVars, wasmVars, resolverVars, typeVars>>

SpecTokenizer == InitTokenizer /\ [][NextTokenizer]_vars

InitResolver ==
    /\ resolver = NoResolver
    /\ IdleLoader
    /\ IdleEval
    /\ IdleParser
    /\ IdlePreParser
    /\ IdleWasm
    /\ IdleTokenizer
    /\ IdleTypeCheck

NextResolver ==
    /\ \/ \E char \in OperatorChars : StartOperator(char)
       \/ \E char \in OperatorChars \cup OtherChars : Add(char)
    /\ UNCHANGED <<loaderVars, evalVars, parserVars, preparserVars, wasmVars, tokenizerVars, typeVars>>

SpecResolver == InitResolver /\ [][NextResolver]_vars

InitTypeCheck ==
    /\ IdleLoader
    /\ IdleEval
    /\ IdleParser
    /\ IdlePreParser
    /\ IdleWasm
    /\ IdleTokenizer
    /\ IdleResolver
    /\ \E source \in FunctionSources : checked = CheckInit(source)

NextTypeCheck ==
    /\ ParseFunctionDeclaration
    /\ UNCHANGED <<loaderVars, evalVars, parserVars, preparserVars, wasmVars, tokenizerVars, resolverVars>>

SpecTypeCheck == InitTypeCheck /\ [][NextTypeCheck]_vars

(***************************************************************************)
(*                       MODULE LOADER: PROPERTIES                         *)
(***************************************************************************)

\* The modules an identifier reaches through import declarations.
RECURSIVE ImportClosure(_)
ImportClosure(S) ==
    LET T == S \cup {t \in Ids : \E m \in S : \E k \in 1..Len(imports[m]) : imports[m][k] = t}
    IN IF T = S THEN S ELSE ImportClosure(T)

DirectImports(m) == {imports[m][k] : k \in 1..Len(imports[m])}

OnCycle(m) == m \in ImportClosure(DirectImports(m))

ReachesCycle(id) == \E m \in ImportClosure({id}) : OnCycle(m)

NoFaults == \A m \in Ids : fault[m] = "ok"

\* C1: loading, into an empty cache, a module whose import graph contains a
\* cycle returns the load error CircularImport naming a module on the cycle.
C1_CircularImportReported ==
    (calls = 1 /\ NoFaults /\ ReachesCycle(lastLoad.id)) =>
        /\ lastLoad.status = "Err"
        /\ lastLoad.err = "CircularImport"
        /\ OnCycle(lastLoad.errId)

C3_AllDependenciesCached ==
    lastLoad.status = "Ok" =>
        \A m \in ImportClosure({lastLoad.id}) : modules[UidTable[m]] # NoModule

\* C4: a load_module call never replaces the instance the cache already
\* holds for a UID.
C4_CachedInstanceNeverReplaced ==
    [][\A u \in Uids : modules[u] # NoModule => modules'[u] = modules[u]]_vars

(***************************************************************************)
(*                           PARSER: PROPERTIES                            *)
(***************************************************************************)

IsOperand(t) == t.kind = "Literal"
IsInfix(t) == t.kind \in {"MathOperator", "BoolOperator"}

InfixNode(t, l, r) ==
    IF t.kind = "MathOperator" THEN MathOperation(t.op, l, r)
    ELSE BoolOperation(t.op, l, r)

\* the value of a constant expression
ConstValue(node) == Eval(node, ModuleScope, 0, EvalInit).r.val

TwoPlusThreeTimesFour ==
    <<TokLiteral(2), TokMath("Plus"), TokLiteral(3), TokMath("Multiply"), TokLiteral(4)>>

TenMinusTwoMinusThree ==
    <<TokLiteral(10), TokMath("Minus"), TokLiteral(2), TokMath("Minus"), TokLiteral(3)>>

\* C5: the stream `a op1 b op2 c` parses to the tree (a op1 b) op2 c, so
\* that 2 + 3 * 4 evaluates to 20 and 10 - 2 - 3 to 5.
C5_InfixLeftAssociative ==
    (/\ parsed.done
     /\ Len(tokens) = 5
     /\ IsOperand(tokens[1]) /\ IsInfix(tokens[2]) /\ IsOperand(tokens[3])
     /\ IsInfix(tokens[4]) /\ IsOperand(tokens[5]))
    =>
    /\ parsed.ok
    /\ parsed.node = InfixNode(tokens[4],
                               InfixNode(tokens[2], IntLit(tokens[1].n), IntLit(tokens[3].n)),
                               IntLit(tokens[5].n))
    /\ tokens = TwoPlusThreeTimesFour => ConstValue(parsed.node) = IntV(20)
    /\ tokens = TenMinusTwoMinusThree => ConstValue(parsed.node) = IntV(5)

(***************************************************************************)
(*                          EVALUATOR: PROPERTIES                          *)
(***************************************************************************)

Trace == run.trace

IsLoopEnd(e) == e.ev \in {"for_end", "while_end"}
IsLoopBegin(e) == e.ev \in {"for_begin", "while_begin"}

\* e records that a construct of invocation f hands on a Ret of kind rk
Unwinds(e, f, rk) ==
    /\ e.ev \in {"for_end", "while_end", "left_end", "right_end"}
    /\ e.frame = f
    /\ e.res = "Ret"
    /\ e.rk = rk

\* e records that an operand of invocation f hands on a Ret of kind rk
OperandUnwinds(e, f, rk) ==
    /\ e.ev \in {"left_end", "right_end"}
    /\ e.frame = f
    /\ e.res = "Ret"
    /\ e.rk = rk

\* the loops of invocation f that are running when event i is recorded
OpenLoops(i, f) ==
    Cardinality({k \in 1..(i - 1) : IsLoopBegin(Trace[k]) /\ Trace[k].frame = f})
    - Cardinality({k \in 1..(i - 1) : IsLoopEnd(Trace[k]) /\ Trace[k].frame = f})

\* C6: inside a callee, a name never resolves to, and an assignment never
\* rebinds, a variable of a scope that belongs to another function
\* invocation; the scope holding the parameters hangs under a module-level
\* scope, not under a scope of the caller.
C6_CalleeDoesNotSeeCallerLocals ==
    \A i \in 1..Len(Trace) :
        /\ (Trace[i].ev \in {"ref", "asgn"} /\ Trace[i].scope # NoScope) =>
               run.scopes[Trace[i].scope].frame \in {Trace[i].frame, 0}
        /\ Trace[i].ev = "call" =>
               run.scopes[run.scopes[Trace[i].scope].parent].frame = 0

\* C7: once a `return` has yielded its value inside invocation f, nothing
\* more of f is evaluated: the enclosing constructs of f hand the Ret on,
\* every enclosing loop ends, and f exits with Ok(returned value).
C7_ReturnEndsInvocation ==
    \A i \in 1..Len(Trace) :
        (Trace[i].ev = "ret" /\ Trace[i].rk = "Return") =>
            \E j \in (i + 1)..Len(Trace) :
                /\ Trace[j].ev = "exit"
                /\ Trace[j].frame = Trace[i].frame
                /\ Trace[j].res = "Ok"
                /\ Trace[j].val = Trace[i].val
                /\ \A k \in (i + 1)..(j - 1) : Unwinds(Trace[k], Trace[i].frame, "Return")

\* C7 witness: a return that leaves two nested loops of one invocation.
C7_Witness ==
    /\ run.done
    /\ \E i \in 1..Len(Trace) :
          /\ Trace[i].ev = "ret" /\ Trace[i].rk = "Return"
          /\ i + 3 <= Len(Trace)
          /\ IsLoopEnd(Trace[i + 1]) /\ Trace[i + 1].res = "Ret"
          /\ IsLoopEnd(Trace[i + 2]) /\ Trace[i + 2].res = "Ret"
          /\ Trace[i + 3].ev = "exit" /\ Trace[i + 3].res = "Ok"

\* C8: a `break` inside a loop of invocation f ends the innermost running
\* loop of f, which yields Ok(break value); and no loop consumes a Break
\* that a function invocation has handed out to its caller.
C8_BreakStaysInInvocation ==
    \A i \in 1..Len(Trace) :
        /\ (Trace[i].ev = "ret" /\ Trace[i].rk = "Break"
                /\ OpenLoops(i, Trace[i].frame) > 0) =>
              \E j \in (i + 1)..Len(Trace) :
                  /\ IsLoopEnd(Trace[j])
                  /\ Trace[j].frame = Trace[i].frame
                  /\ Trace[j].res = "Ok"
                  /\ Trace[j].val = Trace[i].val
                  /\ \A k \in (i + 1)..(j - 1) :
                         OperandUnwinds(Trace[k], Trace[i].frame, "Break")
        /\ (Trace[i].ev = "exit" /\ Trace[i].res = "Ret" /\ Trace[i].rk = "Break") =>
              \A j \in (i + 1)..Len(Trace) :
                  ~(/\ IsLoopEnd(Trace[j])
                    /\ Trace[j].res = "Ok"
                    /\ Trace[j].rk = "Break"
                    /\ \A k \in (i + 1)..(j - 1) :
                           OperandUnwinds(Trace[k], Trace[j].frame, "Break"))

\* C9: the right operand of a MathOperation or BoolOperation is evaluated
\* exactly when the left operand has been evaluated and has yielded a
\* value, whatever the value; it is skipped when the left yields Err or Ret.
C9_RightOperandAlwaysEvaluated ==
    \A i \in 1..Len(Trace) :
        /\ Trace[i].ev = "left_end" =>
              (Trace[i].res = "Ok" <=>
                  (/\ i < Len(Trace)
                   /\ Trace[i + 1].ev = "right_begin"
                   /\ Trace[i + 1].scope = Trace[i].scope))
        /\ Trace[i].ev = "right_begin" =>
              (i > 1 /\ Trace[i - 1].ev = "left_end" /\ Trace[i - 1].res = "Ok")

\* C9 witness: a left operand that yields false, then the right operand
\* (a variable reference) evaluated all the same.
C9_Witness ==
    /\ run.done
    /\ \E i \in 1..Len(Trace) :
          /\ Trace[i].ev = "left_end"
          /\ Trace[i].val = BoolV(FALSE)
          /\ i + 2 <= Len(Trace)
          /\ Trace[i + 1].ev = "right_begin"
          /\ Trace[i + 2].ev = "ref"

ItersOf(loop) == SelectSeq(Trace, LAMBDA e : e.ev = "iter" /\ e.loop = loop)
EndsOf(loop) == SelectSeq(Trace, LAMBDA e : e.ev = "for_end" /\ e.loop = loop)
IterScopes == {Trace[k].scope : k \in {j \in 1..Len(Trace) : Trace[j].ev = "iter"}}
IterEvents == {k \in 1..Len(Trace) : Trace[k].ev = "iter"}

\* C10: a for statement over min..max in which no iteration yields Ret or
\* Err evaluates its body max(0, max - min) times, for min, min+1, ...,
\* max-1 in that order, each time in a scope of its own under the scope of
\* the statement, and yields Ok(Nothing).
C10_ForIteratesRange ==
    /\ \A b \in 1..Len(Trace) :
          (/\ Trace[b].ev = "for_begin"
           /\ Len(EndsOf(Trace[b].loop)) = 1
           /\ EndsOf(Trace[b].loop)[1].rk = "Done")
          =>
          LET its == ItersOf(Trace[b].loop)
              ends == EndsOf(Trace[b].loop)
              count == IF Trace[b].m > Trace[b].n THEN Trace[b].m - Trace[b].n ELSE 0
          IN /\ Len(its) = count
             /\ \A j \in 1..Len(its) :
                   /\ its[j].n = Trace[b].n + j - 1
                   /\ run.scopes[its[j].scope].parent = Trace[b].scope
                   /\ run.scopes[its[j].scope].vars["i"] = IntV(its[j].n)
             /\ ends[1].res = "Ok"
             /\ ends[1].val = Nothing
    /\ Cardinality(IterScopes) = Cardinality(IterEvents)

\* C10 witness: a for statement over 0..MaxInt that ran to completion, and
\* one whose range is empty.
C10_Witness ==
    /\ run.done
    /\ \E b \in 1..Len(Trace) :
          /\ Trace[b].ev = "for_begin"
          /\ Trace[b].n = 0 /\ Trace[b].m = MaxInt
          /\ Len(ItersOf(Trace[b].loop)) = MaxInt
          /\ Len(EndsOf(Trace[b].loop)) = 1
          /\ EndsOf(Trace[b].loop)[1].rk = "Done"
    /\ \E b \in 1..Len(Trace) :
          /\ Trace[b].ev = "for_begin"
          /\ Trace[b].n >= Trace[b].m
          /\ b < Len(Trace)
          /\ Trace[b + 1].ev = "for_end" /\ Trace[b + 1].rk = "Done"

\* C11: a MathOperation Divide whose right operand has evaluated to Int 0
\* yields Err(DivideByZero), never an Ok value.
C11_DivideByZeroIsError ==
    \A i \in 1..Len(Trace) :
        (Trace[i].ev = "math" /\ Trace[i].rk = "Divide" /\ Trace[i].val = IntV(0)) =>
            /\ i < Len(Trace)
            /\ Trace[i + 1].ev = "math_end"
            /\ Trace[i + 1].res = "Err"
            /\ Trace[i + 1].rk = "DivideByZero"

\* C12: indexing a vector v with an Int i yields Ok(the element at position
\* i) when 0 <= i < len(v), and Err(IndexOutOfBounds) for every other i.
C12_IndexOutOfBoundsIsError ==
    \A i \in 1..Len(Trace) :
        (Trace[i].ev = "index" /\ Trace[i].val.t = "Vector") =>
            /\ i < Len(Trace)
            /\ Trace[i + 1].ev = "index_end"
            /\ IF 0 <= Trace[i].n /\ Trace[i].n < Len(Trace[i].val.e)
                 THEN /\ Trace[i + 1].res = "Ok"
                      /\ Trace[i + 1].val = Trace[i].val.e[Trace[i].n + 1]
                 ELSE /\ Trace[i + 1].res = "Err"
                      /\ Trace[i + 1].rk = "IndexOutOfBounds"

\* The declarations of the module in the opposite order.
Reversed(variables) == [i \in 1..Len(variables) |-> variables[Len(variables) + 1 - i]]

\* C13: a module whose global declarations refer to globals declared later
\* (an initializer reading a later variable or calling a function, a
\* function reading a variable) initializes without error, and the globals
\* it binds are the same when the declarations are written in the opposite
\* order.
C13_ForwardReferencesInitialize ==
    (run.init # "None" /\ ~run.done) =>
        /\ run.init = "Ok"
        /\ FromModule(Reversed(program.variables), EvalInit).st.scopes[ModuleScope].vars
             = run.scopes[ModuleScope].vars

(***************************************************************************)
(*                         PRE-PARSER: PROPERTIES                          *)
(***************************************************************************)

\* The tokens after the first k are all NewLine tokens.
BlankAfter(toks, k) == \A i \in (k + 1)..Len(toks) : toks[i].kind = "NewLine"

\* The result r is the success that the stream without its trailing
\* NewLine tokens gives: no error, no further import, no further declaration.
Header(d) == [name |-> d.name, kind |-> d.kind, body |-> d.body]
Headers(decls) == [i \in 1..Len(decls) |-> Header(decls[i])]

SameAsWithout(r, short) ==
    short.status = "Ok" => (r.status = "Ok" /\ r.imports = short.imports
                               /\ Headers(r.declarations) = Headers(short.declarations))

\* C14: NewLine tokens that no declaration follows (a stream of nothing but
\* NewLine tokens, or the NewLine tokens after the last declaration) are
\* accepted by ModuleInitializer::create and by LoadingModuleLoader::load,
\* and add no import and no declaration.
C14_BlankLinesPreParse ==
    \A k \in 0..Len(preparse.tokens) :
        BlankAfter(preparse.tokens, k) =>
            /\ preparse.created # NotPreParsed =>
                 SameAsWithout(preparse.created,
                               Create(SubSeq(preparse.tokens, 1, k), 1, <<>>, <<>>))
            /\ preparse.loaded # NotPreParsed =>
                 SameAsWithout(preparse.loaded,
                               Load(SubSeq(preparse.tokens, 1, k), 1, <<>>, <<>>))

(***************************************************************************)
(*                        WASM LOWERING: PROPERTIES                        *)
(***************************************************************************)

\* C15: a successful build holds exactly the sections Type, Function,
\* Export and Code in this order; the i-th function of the module (counted
\* from 0) has type index i, and the i-th export carries its source name and
\* function index i, so every function index is exported exactly once.
C15_FourSectionsExportEachFunction ==
    wasm.out.status = "Ok" =>
        /\ [k \in 1..Len(wasm.out.sections) |-> wasm.out.sections[k].id]
             = <<"Type", "Function", "Export", "Code">>
        /\ \A k \in 1..4 : Len(wasm.out.sections[k].entries) = Len(wasm.functions)
        /\ \A i \in 1..Len(wasm.functions) :
             /\ wasm.out.sections[2].entries[i] = i - 1
             /\ wasm.out.sections[3].entries[i].name = wasm.functions[i].name
             /\ wasm.out.sections[3].entries[i].index = i - 1
             /\ Cardinality({e \in 1..Len(wasm.out.sections[3].entries) :
                                wasm.out.sections[3].entries[e].index = i - 1}) = 1

\* a module of two functions has been built
C15_Witness ==
    /\ wasm.out.status = "Ok"
    /\ Len(wasm.functions) = 2
    /\ wasm.functions[1].name # wasm.functions[2].name

\* The instructions from..to of a function hold loop ... br_if ... end.
IsLoopCode(instrs, from, to) ==
    /\ from + 1 < to
    /\ instrs[from + 1].op = "Loop"
    /\ instrs[to].op = "End"
    /\ \E k \in (from + 2)..(to - 1) : instrs[k].op = "BrIf"

\* C16: whenever build_statement has returned Ok for a for or a while
\* statement, it has appended instructions, and they are a loop, a br_if
\* inside it, and the closing end.
C16_LoopsAreLowered ==
    \A i \in 1..Len(wasm.out.result) :
        \A k \in 1..Len(wasm.out.result[i].lowered) :
            wasm.out.result[i].lowered[k].ok =>
                IsLoopCode(wasm.out.result[i].instrs,
                           wasm.out.result[i].lowered[k].from,
                           wasm.out.result[i].lowered[k].to)

(***************************************************************************)
(*                          TOKENIZER: PROPERTIES                          *)
(***************************************************************************)

StrictlyIncreasing(stack) == \A i \in 1..(Len(stack) - 1) : stack[i] < stack[i + 1]

CountOf(toks, kind) == Cardinality({i \in 1..Len(toks) : toks[i] = kind})

\* C17: in every state of the tokenizer, the state that reports
\* InvalidIndent included, the indentation stack is non-empty and strictly
\* increasing from bottom to top.
C17_StackNonEmptyIncreasing ==
    /\ tokenizer.indentation_stack # <<>>
    /\ StrictlyIncreasing(tokenizer.indentation_stack)

\* C18: as long as no error has occurred, the Indent tokens emitted minus
\* the Dedent tokens emitted equal the length of the indentation stack
\* minus one.
C18_IndentsMinusDedentsIsDepth ==
    tokenizer.err = "" =>
        CountOf(tokenizer.tokens, "Indent") - CountOf(tokenizer.tokens, "Dedent")
            = Len(tokenizer.indentation_stack) - 1

\* levels have been opened and a single ChangeIndentation has closed two
C18_Witness ==
    /\ tokenizer.err = ""
    /\ CountOf(tokenizer.tokens, "Indent") >= 2
    /\ CountOf(tokenizer.last.emitted, "Dedent") >= 2

\* C19: a ChangeIndentation whose new_indent equals the top of the stack
\* emits no Indent and no Dedent and leaves the stack as it was.
C19_SameIndentChangesNothing ==
    (tokenizer.last # NoChange /\ tokenizer.last.new_indent = Last(tokenizer.last.before)) =>
        /\ tokenizer.last.emitted = <<>>
        /\ tokenizer.indentation_stack = tokenizer.last.before

\* The levels of the stack that are not above new_indent.
LevelsUpTo(stack, new_indent) == SelectSeq(stack, LAMBDA level : level <= new_indent)

\* the latest ChangeIndentation went below the top, to a level of the stack
DedentToLevel ==
    /\ tokenizer.last # NoChange
    /\ tokenizer.last.new_indent < Last(tokenizer.last.before)
    /\ \E i \in 1..Len(tokenizer.last.before) :
          tokenizer.last.before[i] = tokenizer.last.new_indent

\* C20: a ChangeIndentation to a level below the top that is on the stack
\* pops exactly the levels above new_indent, emits exactly one Dedent for
\* each of them and nothing else, and ends with new_indent on top.
C20_DedentPopsToLevel ==
    DedentToLevel =>
        /\ tokenizer.err = ""
        /\ tokenizer.indentation_stack
             = LevelsUpTo(tokenizer.last.before, tokenizer.last.new_indent)
        /\ Last(tokenizer.indentation_stack) = tokenizer.last.new_indent
        /\ tokenizer.last.emitted
             = [i \in 1..(Len(tokenizer.last.before) - Len(tokenizer.indentation_stack))
                  |-> "Dedent"]

\* a dedent over two levels at once
C20_Witness ==
    /\ DedentToLevel
    /\ Len(tokenizer.last.before) - Len(tokenizer.indentation_stack) >= 2

\* the latest ChangeIndentation went below the top, to no level of the stack
DedentToNoLevel ==
    /\ tokenizer.last # NoChange
    /\ tokenizer.last.new_indent < Last(tokenizer.last.before)
    /\ \A i \in 1..Len(tokenizer.last.before) :
          tokenizer.last.before[i] # tokenizer.last.new_indent

\* C21: a ChangeIndentation to a column below the top that is no level of
\* the stack makes tokenize fail with InvalidIndent; no token stream is
\* returned and no further character is handled.
C21_DedentToNoLevelIsInvalidIndent ==
    DedentToNoLevel =>
        /\ TokenizeResult = [ok |-> FALSE, err |-> "InvalidIndent", tokens |-> <<>>]
        /\ ~Running

\* a dedent from two open levels to a column between them
C21_Witness ==
    /\ DedentToNoLevel
    /\ Len(tokenizer.last.before) >= 3
    /\ tokenizer.last.new_indent > 0
    /\ tokenizer.err = "InvalidIndent"

(***************************************************************************)
(*                      OPERATOR RESOLVER: PROPERTIES                      *)
(***************************************************************************)

\* The operators of the language and the kind of token each one makes.
OperatorKindOf(chars) ==
    IF chars \in {<<"=">>, <<".", ".">>, <<",">>, <<".">>, <<":">>, <<"@">>} THEN "Operator"
    ELSE IF chars \in {<<"+">>, <<"-">>, <<"*">>, <<"/">>, <<"%">>, <<"^">>}
      THEN "MathOperator"
    ELSE IF chars \in {<<"=", "=">>, <<"!", "=">>, <<">">>, <<"<">>, <<">", "=">>,
                       <<"<", "=">>} THEN "BoolOperator"
    ELSE ""

LastResult == resolver.results[Len(resolver.results)]

TokensEmitted == Cardinality({i \in 1..Len(resolver.results) :
                                 resolver.results[i].token # NoToken})

\* C22: every operator character is absorbed with Ok and emits nothing; the
\* first other character ends the run with exactly one token for the whole
\* accumulated string and the character handed back, when the string is an
\* operator, and with InvalidOperatorToken and no token otherwise; so the
\* runs `=-`, `...` and `!` end in the error.
C22_OperatorRunIsOneToken ==
    resolver # NoResolver =>
        /\ \A i \in 1..Len(resolver.results) :
             i < Len(resolver.results) => resolver.results[i] = AddOk
        /\ ~Ended(resolver) =>
             (LastResult = AddOk /\ Len(resolver.chars) = Len(resolver.results))
        /\ Ended(resolver) =>
             /\ Len(resolver.chars) = Len(resolver.results) - 1
             /\ IF OperatorKindOf(resolver.chars) # ""
                  THEN /\ LastResult.kind = "Change"
                       /\ LastResult.token.kind = OperatorKindOf(resolver.chars)
                       /\ LastResult.char \in OtherChars
                       /\ TokensEmitted = 1
                  ELSE /\ LastResult = AddResultErr("InvalidOperatorToken")
                       /\ TokensEmitted = 0
        /\ (Ended(resolver) /\ resolver.chars \in {<<"=", "-">>, <<".", ".", ".">>, <<"!">>})
             => LastResult.kind = "Err"

\* the run `=-` has ended
C22_Witness ==
    /\ resolver # NoResolver
    /\ Ended(resolver)
    /\ resolver.chars = <<"=", "-">>

(***************************************************************************)
(*                    PRE-PARSER: FUNCTION BODIES                          *)
(***************************************************************************)

\* Indent tokens minus Dedent tokens among toks[from..to].
DepthOver(toks, from, to) ==
    Cardinality({i \in from..to : toks[i].kind = "Indent"})
      - Cardinality({i \in from..to : toks[i].kind = "Dedent"})

\* toks[j] is the Dedent that matches the Indent standing before toks[body].
MatchesBody(toks, body, j) ==
    /\ j \in body..Len(toks)
    /\ toks[j].kind = "Dedent"
    /\ DepthOver(toks, body, j - 1) = 0
    /\ \A i \in body..(j - 1) :
          toks[i].kind = "Dedent" => DepthOver(toks, body, i - 1) > 0

\* Where the cursor has to stand after a function whose body starts at body.
AfterBody(toks, body) ==
    IF \E j \in body..Len(toks) : MatchesBody(toks, body, j)
      THEN (CHOOSE j \in body..Len(toks) : MatchesBody(toks, body, j)) + 1
    ELSE Len(toks) + 1

FunctionsEndAfterBody(toks, r) ==
    \A i \in 1..Len(r.declarations) :
        r.declarations[i].kind = "Function" =>
            r.declarations[i].next = AfterBody(toks, r.declarations[i].body)

\* C23: after a function declaration is scanned, by ModuleInitializer or by
\* LoadingModuleLoader, the cursor stands right after the Dedent that
\* matches the Indent of its body, nested blocks being part of the body, and
\* at the end of the stream when that Dedent is missing.
C23_CursorAfterMatchingDedent ==
    /\ FunctionsEndAfterBody(preparse.tokens, preparse.created)
    /\ FunctionsEndAfterBody(preparse.tokens, preparse.loaded)

\* a function with a nested block, then another declaration, scanned by both
C23_Witness ==
    /\ preparse.created.status = "Ok"
    /\ preparse.loaded.status = "Ok"
    /\ Len(preparse.created.declarations) = 2
    /\ preparse.created.declarations[1].name = "g"
    /\ preparse.created.declarations[1].next < preparse.created.declarations[2].body
    /\ Len(preparse.loaded.declarations) = 2
    /\ preparse.loaded.declarations[1].name = "g"

\* a function without the closing Dedent has been scanned
C23_WitnessUnclosed ==
    /\ preparse.created.status = "Ok"
    /\ \E i \in 1..Len(preparse.created.declarations) :
          /\ preparse.created.declarations[i].name = "h"
          /\ preparse.created.declarations[i].next = Len(preparse.tokens) + 1

\* ---- type checking ----

Sites == checked.out.sites

Accepted == checked.out.status = "Ok"

\* The child's type and the demanded type are compatible, whichever of the
\* two is taken as the receiver of is_compatible.
CompatibleEitherWay(s) ==
    IsCompatible(s.demanded, s.supplied) \/ IsCompatible(s.supplied, s.demanded)

\* C24: in every function the parser accepts, the value of a typed
\* declaration is compatible with the declared type, each call argument with
\* the parameter type, and the value assigned by `=` with the type of the
\* name assigned to.
C24_ChildrenCompatibleWithDemand ==
    Accepted =>
        \A i \in 1..Len(Sites) :
            Sites[i].site \in {"declaration", "argument", "assignment"}
                => CompatibleEitherWay(Sites[i])

\* C28: the parser accepts a function only if every return of its body, the
\* ones followed by another return and the ones inside an if body included,
\* has a value whose type is compatible with the declared return type.
C28_EveryReturnIsChecked ==
    Accepted =>
        \A i \in 1..Len(Sites) :
            Sites[i].site = "return" => CompatibleEitherWay(Sites[i])

\* The function whose only statement is a declaration `var x: T = v` of
\* Object type and Object value.
ObjectDeclaration ==
    /\ Len(checked.source.body) = 1
    /\ checked.source.body[1].src = "Variable"
    /\ checked.source.body[1].assign_type.k = "Object"
    /\ checked.source.body[1].value.type.k = "Object"

\* The same demanded type and the same value as the argument of a call:
\* g takes one argument of type T and the body is `g(v)`.
AsArgument(source) ==
    FunctionSource(Globals(source.body[1].assign_type), source.ret_type,
                   <<SrcInvok("g", source.body[1].value)>>)

\* C29: an Object value is accepted for a demanded Object type in a
\* declaration exactly when it is accepted for that type as a call argument.
C29_DeclarationAndArgumentAgree ==
    (ObjectDeclaration /\ checked.out.status # "None") =>
        (Accepted <=> CheckFunction(AsArgument(checked.source)).status = "Ok")

\* ---- assignment in the scope chain ----

AsgnEvents == {i \in 1..Len(run.trace) : run.trace[i].ev = "asgn"}

\* Scope::set_var from scope s leaves every binding as it is but the one of
\* name in the scope found.
OnlyRebinds(s, name, found, after) ==
    /\ after[found].vars[name] = IntV(MaxInt)
    /\ \A t \in 1..Len(run.scopes), n \in Names :
          (t # found \/ n # name) => after[t].vars[n] = run.scopes[t].vars[n]

\* C25: assigning to a name rebinds it in the nearest scope of the parent
\* chain that binds it and leaves every other scope unchanged; when no scope
\* binds the name the assignment binds it in the root scope, where a later
\* lookup finds it.
C25_AssignRebindsNearestOrCreatesInRoot ==
    /\ \A s \in 1..Len(run.scopes), name \in {"x", "y", "u"} :
          FindScope(Loaded, s, name) # NoScope =>
              OnlyRebinds(s, name, FindScope(Loaded, s, name),
                          SetVar(Loaded, s, name, IntV(MaxInt)).scopes)
    /\ \A i \in AsgnEvents :
          run.trace[i].scope = NoScope =>
              run.scopes[ModuleScope].vars[run.trace[i].rk] # Undef

\* ---- the cache after a failed load ----

\* C26: a load_module call that returns an error leaves the module cache
\* exactly as it was before the call.
C26_FailedLoadLeavesCacheUnchanged ==
    lastLoad.status = "Err" => modules = lastLoad.before

\* ---- locals of the lowered functions ----

\* The 0-based index of the latest declaration of name among the locals.
LatestLocal(locals, name) ==
    (CHOOSE i \in 1..Len(locals) :
        locals[i] = name /\ \A j \in (i + 1)..Len(locals) : locals[j] # name) - 1

\* Every resolution of a name in the functions built.
Resolutions ==
    UNION {{wasm.out.result[k].resolved[i] : i \in 1..Len(wasm.out.result[k].resolved)} :
              k \in 1..Len(wasm.out.result)}

\* C27: every VariableRef and VariableAsgn of a name is lowered to the local
\* index of the latest declaration of that name that precedes it.
C27_NamesResolveToLatestDeclaration ==
    \A r \in Resolutions : r.local = LatestLocal(r.locals, r.name)

\* ---- one fetch per imported module ----

NoDuplicates(seq) == \A i, j \in 1..Len(seq) : seq[i] = seq[j] => i = j

\* C30: during a load_module call that succeeds, no module is fetched from
\* the importer more than once, and no module appears more than once in the
\* list of parsable modules handed to the parser.
C30_EachImportFetchedOnce ==
    lastLoad.status = "Ok" =>
        NoDuplicates(lastLoad.fetched) /\ NoDuplicates(lastLoad.vec)

====
